---- MODULE Spec2Model ----
(***************************************************************************)
(* A model of the storage/streaming engine of while-maybe/streamer:        *)
(* the Registry (internal/media/registry.go), the IOLimiter                *)
(* (internal/media/limiter.go), the serving handlers (internal/api) and    *)
(* the Resources (internal/media/buffered_file_resource.go).               *)
(*                                                                         *)
(* Strings are sequences of one-character strings, so that filepath.Ext,   *)
(* filepath.Dir, strings.ToLower and Go's byte-wise string order are       *)
(* computed, not assumed.                                                  *)
(***************************************************************************)
EXTENDS Integers, Sequences, FiniteSets, TLC

VARIABLES
    byUUID,       \* Registry.byUUID : uuid -> the Entry the stored pointer refers to
    byPath,       \* Registry.byPath : path -> uuid
    nextID,       \* the next identifier uuid.NewV7 hands out
    everPresent,  \* history: every uuid that was ever a key of byUUID
    ret,          \* the last Registry call and what it returned
    sem,          \* IOLimiter.sem: the number of tokens in the channel
    lim,          \* per limiter task: where it is inside TryAcquire/Release
    acquired,     \* history: TryAcquire calls that returned nil
    released,     \* history: Release calls that returned
    rsrc,         \* an open file read through a Buffered and a Direct Resource
    mgr,          \* the Manager's configuration and its last OpenResource call
    scn,          \* the background scanner StartScanning starts
    mu,           \* Registry.mu: the task holding the write lock, the read holders
    tsk,          \* per registry task: where it is inside Scan, List or Get
    inserted,     \* history: the ids Scan gave to new entries, in insertion order
    app           \* the configuration and what ParseArgs and NewApp made of it

regVars == <<byUUID, byPath, nextID, everPresent, ret>>
limVars == <<sem, lim, acquired, released>>
resVars == <<rsrc>>
mgrVars == <<mgr>>
scanVars == <<scn>>
lockVars == <<mu, tsk, inserted>>
appVars == <<app>>
vars == <<byUUID, byPath, nextID, everPresent, ret,
          sem, lim, acquired, released, rsrc, mgr, scn, mu, tsk, inserted, app>>

(***************************************************************************)
(* Bounds of the model.                                                    *)
(***************************************************************************)
MaxID == 2        \* identifiers uuid.NewV7 may hand out in one run
MaxCalls == 4     \* successful TryAcquire calls counted in one run
MaxTasks == 3     \* tasks calling the IOLimiter
MaxCap == 2       \* largest capacity an IOLimiter is made with
MaxFile == 6      \* length in bytes of the file a Resource reads
MaxBuf == 3       \* largest size of a Buffered resource's buffer
MaxRead == 4      \* longest slice passed to Read
MaxSegs == 3      \* most segments of a path passed to OpenResource
MaxLinks == 2     \* symbolic links followed while resolving one path
MaxVols == 2      \* volumes of a configuration
MaxPaths == 2     \* paths of one volume

(***************************************************************************)
(* Strings.                                                                *)
(***************************************************************************)
Nil == 0          \* uuid.Nil, the zero value of uuid.UUID

\* ResourceMode: ModeUnknown = iota, ModeFileDirect, ModeFileBuffered.
ModeUnknown == 0
ModeFileDirect == 1
ModeFileBuffered == 2

S_m_mp4 == <<"m", ".", "m", "p", "4">>
S_A_m_mp4 == <<"A", "/", "m", ".", "m", "p", "4">>
S_A_B_k_M4V == <<"A", "/", "B", "/", "k", ".", "M", "4", "V">>
S_n_txt == <<"n", ".", "t", "x", "t">>
S_mp4 == <<".", "m", "p", "4">>
S_m4v == <<".", "m", "4", "v">>
S_dot == <<".">>
S_Uncategorized == <<"U", "n", "c", "a", "t", "e", "g", "o", "r", "i", "z", "e", "d">>
S_edited == <<"e", "d", "i", "t", "e", "d">>
EmptyString == <<>>

\* The byte value of a character, for the characters the model uses.
Ord(c) ==
    CASE c = "." -> 46 [] c = "/" -> 47 [] c = "1" -> 49 [] c = "2" -> 50
      [] c = "4" -> 52 [] c = "A" -> 65 [] c = "B" -> 66 [] c = "M" -> 77
      [] c = "U" -> 85 [] c = "V" -> 86 [] c = "a" -> 97 [] c = "c" -> 99
      [] c = "d" -> 100 [] c = "e" -> 101 [] c = "g" -> 103 [] c = "i" -> 105
      [] c = "k" -> 107 [] c = "m" -> 109 [] c = "n" -> 110 [] c = "o" -> 111
      [] c = "p" -> 112 [] c = "r" -> 114 [] c = "t" -> 116 [] c = "v" -> 118
      [] c = "x" -> 120 [] c = "z" -> 122

\* Go's < on strings: byte-wise lexicographic order.
RECURSIVE StrLess(_, _)
StrLess(a, b) ==
    IF b = <<>> THEN FALSE
    ELSE IF a = <<>> THEN TRUE
    ELSE IF Ord(Head(a)) # Ord(Head(b)) THEN Ord(Head(a)) < Ord(Head(b))
    ELSE StrLess(Tail(a), Tail(b))

\* strings.ToLower on one character.
LowerChar(c) ==
    CASE c = "A" -> "a" [] c = "B" -> "b" [] c = "M" -> "m" [] c = "U" -> "u"
      [] c = "V" -> "v" [] OTHER -> c

ToLower(s) == [i \in 1..Len(s) |-> LowerChar(s[i])]

\* The index of the last "/" of s, 0 when there is none.
LastSlash(s) ==
    LET at == {i \in 1..Len(s) : s[i] = "/"}
    IN IF at = {} THEN 0 ELSE CHOOSE i \in at : \A j \in at : j <= i

\* filepath.Ext: the suffix from the last dot of the last element, or "".
Ext(s) ==
    LET dots == {i \in (LastSlash(s) + 1)..Len(s) : s[i] = "."}
    IN IF dots = {} THEN EmptyString
       ELSE SubSeq(s, CHOOSE i \in dots : \A j \in dots : j <= i, Len(s))

\* filepath.Dir of a clean slash-separated relative path.
Dir(s) == IF LastSlash(s) = 0 THEN S_dot ELSE SubSeq(s, 1, LastSlash(s) - 1)

\* fs.DirEntry.Name: the last element of the path.
BaseName(s) == SubSeq(s, LastSlash(s) + 1, Len(s))

(***************************************************************************)
(* The Registry: data.                                                     *)
(*                                                                         *)
(* byUUID holds pointers.  Every Entry object the index points to is       *)
(* stored under one key only, so an object is identified by its key and    *)
(* byUUID[id] stands for the object itself: the pointer Get(id) returns    *)
(* is that object, and a write through it is a write to byUUID[id].        *)
(***************************************************************************)
Volumes == {"v1", "v2"}
NoVolume == ""
IDs == 0..MaxID

\* The zero value of Entry.
ZeroEntry ==
    [UUID |-> Nil, VolumeID |-> NoVolume, Path |-> EmptyString,
     Name |-> EmptyString, Category |-> EmptyString, Size |-> 0]

Range(f) == {f[x] : x \in DOMAIN f}
Restrict(f, S) == [x \in S |-> f[x]]
MapPut(f, k, v) == [x \in (DOMAIN f) \cup {k} |-> IF x = k THEN v ELSE f[x]]
EmptyMap == <<>>

\* The category Scan's walk gives a path.
CategoryOf(path) == IF Dir(path) = S_dot THEN S_Uncategorized ELSE Dir(path)

\* A call record: the operation, what it took (id, vol, files, path) and what it
\* returned (err, panicked, val).  The other fields are history, filled in by
\* Observed from the state before and after the call.
Call(op) ==
    [op |-> op, id |-> Nil, vol |-> NoVolume, files |-> EmptyMap, path |-> EmptyString,
     err |-> FALSE, panicked |-> FALSE, val |-> <<>>,
     added |-> {}, removed |-> {}, changed |-> FALSE, reused |-> FALSE,
     had |-> {}, again |-> FALSE]

\* History of a call: the entries it put into and took out of byUUID, whether
\* it changed either map, whether a key it added had been a key before,
\* which paths its volume had cataloged before, and whether it repeats the
\* call before it.  bu and bp are the maps after the call.
Observed(call, bu, bp) ==
    [call EXCEPT
        !.added = Range(bu) \ Range(byUUID),
        !.removed = Range(byUUID) \ Range(bu),
        !.changed = (bu # byUUID \/ bp # byPath),
        !.reused = (\E id \in (DOMAIN bu) \ DOMAIN byUUID : id \in everPresent),
        !.had = {e.Path : e \in {x \in Range(byUUID) : x.VolumeID = call.vol}},
        !.again = (ret.op = call.op /\ ret.vol = call.vol /\ ret.files = call.files
                   /\ call.op = "Scan")]

\* An unrecovered panic ends the process.
Running == ~ret.panicked

(***************************************************************************)
(* NewEntry.                                                               *)
(***************************************************************************)
NewEntryFails(volID, path, name, size) ==
    volID = NoVolume \/ path = EmptyString \/ name = EmptyString \/ size = 0

NewEntry(id, volID, path, name, category, size) ==
    [UUID |-> id, VolumeID |-> volID, Path |-> path, Name |-> name,
     Category |-> category, Size |-> size]

(***************************************************************************)
(* The Registry: Get, List, Add, Remove.                                   *)
(***************************************************************************)
\* Get without the IsNil check: the map lookup alone decides.
Get_NoNilCheck(id) ==
    /\ Running
    /\ UNCHANGED <<byUUID, byPath, nextID, everPresent>>
    /\ ret' = Observed(IF id \notin DOMAIN byUUID
                       THEN [Call("Get") EXCEPT !.id = id, !.err = TRUE]
                       ELSE [Call("Get") EXCEPT !.id = id, !.val = <<byUUID[id]>>],
                       byUUID', byPath')

\* Registry.Get: the nil identifier and a missing key are errors; otherwise
\* the stored pointer itself is returned (val shows what it points to).
Get(id) ==
    /\ Running
    /\ UNCHANGED <<byUUID, byPath, nextID, everPresent>>
    /\ ret' = Observed(IF id = Nil \/ id \notin DOMAIN byUUID
                       THEN [Call("Get") EXCEPT !.id = id, !.err = TRUE]
                       ELSE [Call("Get") EXCEPT !.id = id, !.val = <<byUUID[id]>>],
                       byUUID', byPath')

\* Manager.GetEntry: the same nil check, then Registry.Get.
GetEntry(id) ==
    IF id = Nil
    THEN /\ Running
         /\ UNCHANGED <<byUUID, byPath, nextID, everPresent>>
         /\ ret' = Observed([Call("GetEntry") EXCEPT !.id = id, !.err = TRUE], byUUID', byPath')
    ELSE Get(id)

\* The comparison List sorts with: by Name alone, equal names compare 0.
ListCmpLess(a, b) == StrLess(a.Name, b.Name)

\* What slices.SortFunc may produce from the entries in map order: any
\* arrangement in which no element is followed by a smaller one.
SortedBy(seq) ==
    \A i, j \in 1..Len(seq) : i < j => ~ListCmpLess(seq[j], seq[i])

Arrangements(S) ==
    {q \in [1..Cardinality(S) -> S] : \A i, j \in 1..Cardinality(S) : q[i] = q[j] => i = j}

\* Registry.List: a sorted slice of copies of the entries.
List ==
    /\ Running
    /\ UNCHANGED <<byUUID, byPath, nextID, everPresent>>
    /\ \E q \in Arrangements(Range(byUUID)) :
          /\ SortedBy(q)
          /\ ret' = Observed([Call("List") EXCEPT !.val = q], byUUID', byPath')

\* The Video ListFiles makes of an entry: its UUID, Name, Category and Size.
Video(e) == [UUID |-> e.UUID, Name |-> e.Name, Category |-> e.Category, Size |-> e.Size]

\* Manager.ListFiles: one Video per entry Registry.List returned, in order.
ListFiles(entries) == [i \in 1..Len(entries) |-> Video(entries[i])]

\* Registry.Add(nil) returns at once.
AddNil ==
    /\ Running
    /\ UNCHANGED <<byUUID, byPath, nextID, everPresent>>
    /\ ret' = Observed(Call("AddNil"), byUUID', byPath')

\* Registry.Add(e): both maps are written, whatever they held.
Add(e) ==
    /\ Running
    /\ e.UUID <= MaxID
    /\ byUUID' = MapPut(byUUID, e.UUID, e)
    /\ byPath' = MapPut(byPath, e.Path, e.UUID)
    /\ ret' = Observed(Call("Add"), byUUID', byPath')
    /\ nextID' = IF e.UUID = nextID THEN nextID + 1 ELSE nextID
    /\ everPresent' = everPresent \cup {e.UUID}

\* Remove that deletes the path from byPath and leaves byUUID alone.
Remove_KeepsEntry(path) ==
    /\ Running
    /\ IF path = EmptyString \/ path \notin DOMAIN byPath
       THEN UNCHANGED <<byUUID, byPath>>
       ELSE /\ byPath' = Restrict(byPath, DOMAIN byPath \ {path})
            /\ byUUID' = byUUID
    /\ ret' = Observed([Call("Remove") EXCEPT !.path = path], byUUID', byPath')
    /\ UNCHANGED <<nextID, everPresent>>

\* Registry.Remove(path).
Remove(path) ==
    /\ Running
    /\ IF path = EmptyString \/ path \notin DOMAIN byPath
       THEN UNCHANGED <<byUUID, byPath>>
       ELSE /\ byPath' = Restrict(byPath, DOMAIN byPath \ {path})
            /\ byUUID' = Restrict(byUUID, DOMAIN byUUID \ {byPath[path]})
    /\ ret' = Observed([Call("Remove") EXCEPT !.path = path], byUUID', byPath')
    /\ UNCHANGED <<nextID, everPresent>>

\* A caller writes through the pointer Get has just returned.
CallerWrite ==
    /\ Running
    /\ ret.op \in {"Get", "GetEntry"} /\ ~ret.err
    /\ byUUID[ret.id].Name # S_edited
    /\ byUUID' = [byUUID EXCEPT ![ret.id].Name = S_edited]
    /\ byPath' = byPath
    /\ ret' = Observed([Call("Write") EXCEPT !.id = ret.id], byUUID', byPath')
    /\ UNCHANGED <<nextID, everPresent>>

(***************************************************************************)
(* The Registry: Scan.                                                     *)
(***************************************************************************)
AllowedExtensions == {S_mp4, S_m4v}

\* A file as the walk meets it: its size, and whether the walk reaches it
\* and can stat it (ok), or meets an error on it or on a directory above it.
File(size, ok) == [size |-> size, ok |-> ok]

\* The files each volume may hold, and the states each may be in.
FileChoices(vol) ==
    IF vol = "v1"
    THEN [p \in {S_m_mp4, S_A_m_mp4} |->
            IF p = S_m_mp4 THEN {File(5, TRUE), File(9, TRUE)}
            ELSE {File(5, TRUE), File(5, FALSE)}]
    ELSE [p \in {S_m_mp4, S_A_B_k_M4V, S_n_txt} |->
            IF p = S_m_mp4 THEN {File(5, TRUE), File(0, TRUE)}
            ELSE {File(5, TRUE)}]

\* The files every content of the volume's root holds.
AlwaysThere(vol) == IF vol = "v1" THEN {} ELSE {S_n_txt}

\* Every content a volume's root may have.
FsStates(vol) ==
    LET ch == FileChoices(vol)
    IN UNION {{f \in [D -> UNION Range(ch)] : \A p \in D : f[p] \in ch[p]} :
              D \in {E \in SUBSET DOMAIN ch : AlwaysThere(vol) \subseteq E}}

\* A root that cannot be walked at all (missing, or not readable): the
\* only thing the walk meets is the root "." itself, with an error.
NoRoot == [p \in {S_dot} |-> File(0, FALSE)]

RootFails(files) == S_dot \in DOMAIN files /\ ~files[S_dot].ok

\* Whether the walk callback returns an error when it is handed one: it
\* returns nil.
WalkFnErr(err) == FALSE

\* Whether fs.WalkDir returns an error: all it can return is what the
\* callback returned, here for the error met on the root.
WalkDirErr(files) == RootFails(files) /\ WalkFnErr(TRUE)

\* The walk callback admits a file: no error on the way, not a directory,
\* an allowed extension (compared in lower case), Info() succeeds.
Admitted(path, file) == file.ok /\ ToLower(Ext(path)) \in AllowedExtensions

\* The meta map the walk builds.
WalkMeta(files) ==
    [p \in {q \in DOMAIN files : Admitted(q, files[q])} |->
        [path |-> p, name |-> BaseName(p), category |-> CategoryOf(p),
         size |-> files[p].size]]

\* Deletions without the volume check.
StaleIDs_AnyVolume(bu, volID, meta) ==
    {id \in DOMAIN bu : bu[id].Path \notin DOMAIN meta}

\* Deletions: the entries of the volume whose Path the walk did not record.
StaleIDs(bu, volID, meta) ==
    {id \in DOMAIN bu : bu[id].VolumeID = volID /\ bu[id].Path \notin DOMAIN meta}

\* Additions without the byPath lookup: every walked path.
MissingPaths_All(meta, bp) == DOMAIN meta

\* Additions: the walked paths that are no key of byPath.
MissingPaths(meta, bp) == {p \in DOMAIN meta : p \notin DOMAIN bp}

\* For a missing path the lookup yields uuid.Nil, and the volume check reads
\* byUUID[uuid.Nil].VolumeID: a nil pointer unless uuid.Nil is a key.
NilLookupFaults(bu) == Nil \notin DOMAIN bu

\* The volume check on the entry found under uuid.Nil.
VolumeCheckPasses(bu, volID) == bu[Nil].VolumeID = volID

\* Identifiers counted from 1 again at every Scan.
FreshIDs_Restart(nid, n) == 1..n

\* The identifiers n successive calls of uuid.NewV7 return: none that was
\* returned before.
FreshIDs(nid, n) == nid..(nid + n - 1)

\* The diff-and-apply step of Scan, all of it under the exclusive lock: what
\* it may make of the maps bu and bp, with nid the next fresh identifier.
ScanOutcomes(bu, bp, nid, volID, meta) ==
    LET stale == StaleIDs(bu, volID, meta)
        bu1 == Restrict(bu, DOMAIN bu \ stale)
        bp1 == Restrict(bp, DOMAIN bp \ {bu[id].Path : id \in stale})
        missing == MissingPaths(meta, bp1)
    IN IF missing # {} /\ NilLookupFaults(bu1)
       THEN \* nil pointer dereference: the deferred Unlock runs, the panic goes on
            {[byUUID |-> bu1, byPath |-> bp1, nextID |-> nid, panicked |-> TRUE,
              added |-> {}]}
       ELSE LET addable ==
                    IF missing # {} /\ VolumeCheckPasses(bu1, volID)
                    THEN {p \in missing :
                            ~NewEntryFails(volID, meta[p].path, meta[p].name, meta[p].size)}
                    ELSE {}
                n == Cardinality(addable)
                fresh == FreshIDs(nid, n)
                \* the map is ranged over in any order: any path may get any of the ids
                orders == {f \in [addable -> fresh] :
                             \A p, q \in addable : f[p] = f[q] => p = q}
            IN {[byUUID |-> [id \in (DOMAIN bu1) \cup fresh |->
                                IF id \in fresh
                                THEN LET m == meta[CHOOSE p \in addable : idOf[p] = id]
                                     IN NewEntry(id, volID, m.path, m.name, m.category, m.size)
                                ELSE bu1[id]],
                 byPath |-> [p \in (DOMAIN bp1) \cup addable |->
                                IF p \in addable THEN idOf[p] ELSE bp1[p]],
                 nextID |-> nid + n, panicked |-> FALSE,
                 added |-> fresh] : idOf \in orders}

\* Registry.Scan(volID, rootPath): the walk sees the root's content, then the
\* diff is applied.
Scan(vol, files) ==
    /\ Running
    /\ IF WalkDirErr(files)
       THEN \* return fmt.Errorf("walkdir: %w", err), before the lock
            /\ UNCHANGED <<byUUID, byPath, nextID, everPresent>>
            /\ ret' = Observed([Call("Scan") EXCEPT !.vol = vol, !.files = files,
                                                       !.err = TRUE],
                               byUUID', byPath')
       ELSE \E out \in ScanOutcomes(byUUID, byPath, nextID, vol, WalkMeta(files)) :
               /\ out.nextID - 1 <= MaxID
               /\ byUUID' = out.byUUID
               /\ byPath' = out.byPath
               /\ nextID' = out.nextID
               /\ everPresent' = everPresent \cup out.added
               /\ ret' = Observed([Call("Scan") EXCEPT !.vol = vol, !.files = files,
                                                          !.panicked = out.panicked],
                                  byUUID', byPath')

(***************************************************************************)
(* The Registry as a system.                                               *)
(***************************************************************************)
EntryPaths == {S_m_mp4, S_A_m_mp4}

\* The entries callers hand to Add: built by NewEntry (a fresh identifier)
\* or written out as a literal that leaves UUID at its zero value.
AddInputs ==
    UNION {{NewEntry(id, vol, p, BaseName(p), CategoryOf(p), 5) :
               id \in {Nil, nextID},
               p \in EntryPaths \cap DOMAIN FileChoices(vol)} : vol \in Volumes}

RemoveInputs == EntryPaths \cup {S_A_B_k_M4V, EmptyString}

InitRegistry ==
    /\ byUUID = EmptyMap
    /\ byPath = EmptyMap
    /\ nextID = 1
    /\ everPresent = {}
    /\ ret = Call("None")

InitLimiterIdle ==
    /\ sem = [cap |-> 1, len |-> 0]
    /\ lim = <<>>
    /\ acquired = 0
    /\ released = 0

\* The result of a Resource call, before any call.
NoResult ==
    [op |-> "None", len |-> 0, offset |-> 0, whence |-> "",
     bytes |-> <<>>, pos |-> 0, err |-> FALSE,
     dbytes |-> <<>>, dpos |-> 0, derr |-> FALSE,
     buffered |-> 0, changed |-> FALSE]

\* No file is open.
InitResourceIdle ==
    rsrc = [size |-> 0, bufSize |-> 0, fpos |-> 0, buf |-> <<>>, dpos |-> 0,
            sought |-> -1, dropped |-> 0, last |-> NoResult]

\* The result of an OpenResource call, before any call.
NoOpen ==
    [op |-> "None", vol |-> "", path |-> <<>>, err |-> "", opened |-> FALSE,
     tried |-> FALSE, escapes |-> FALSE, stat |-> FALSE]

\* A Manager nobody calls OpenResource on.
InitManagerIdle ==
    mgr = [mode |-> ModeUnknown, mounted |-> {}, outside |-> FALSE, fds |-> 0,
           last |-> NoOpen]

\* StartScanning has not been called.
InitScannerIdle ==
    scn = [pc |-> "none", todo |-> {}, cancelled |-> FALSE, tick |-> FALSE,
           returned |-> FALSE, failed |-> FALSE, disk |-> <<>>]

\* Nobody is inside a Registry method: the lock is free.
InitLockIdle ==
    /\ mu = [w |-> 0, r |-> {}]
    /\ tsk = <<>>
    /\ inserted = <<>>

\* No configuration has been read.
NoConfig ==
    [cfg |-> <<>>, pc |-> "none", err |-> <<>>, Volumes |-> <<>>, lims |-> <<>>,
     held |-> <<>>]

InitAppIdle == app = NoConfig

InitIdle == InitManagerIdle /\ InitScannerIdle /\ InitLockIdle /\ InitAppIdle

Init == InitRegistry /\ InitLimiterIdle /\ InitResourceIdle /\ InitIdle

NextRegistry ==
    \/ \E e \in AddInputs : Add(e)
    \/ AddNil
    \/ \E p \in RemoveInputs : Remove(p)
    \/ \E vol \in Volumes : \E files \in FsStates(vol) \cup {NoRoot} : Scan(vol, files)

Next == NextRegistry /\ UNCHANGED <<limVars, resVars, mgrVars, scanVars, lockVars, appVars>>

Spec == Init /\ [][Next]_vars

NextReaders ==
    \/ \E e \in AddInputs : Add(e)
    \/ \E id \in IDs : Get(id)
    \/ \E id \in IDs : GetEntry(id)
    \/ List
    \/ CallerWrite

SpecReaders == Init /\ [][NextReaders /\ UNCHANGED <<limVars, resVars, mgrVars, scanVars, lockVars, appVars>>]_vars

(***************************************************************************)
(* IOLimiter: a buffered channel used as a counting semaphore.  sem is the *)
(* channel (its capacity and the number of values buffered), lim the place *)
(* of every task: idle, inside TryAcquire's select, or inside Release's    *)
(* receive, with what its last TryAcquire returned (res).  acquired and    *)
(* released count the calls that completed.                                *)
(***************************************************************************)
Tasks == 1..MaxTasks

\* NewIOLimiter: make(chan struct{}, maxConcurrent), an empty channel.
NewIOLimiter(maxConcurrent) == [cap |-> maxConcurrent, len |-> 0]

\* A send on the channel that proceeds although the buffer is full.
CanSend_Always(ch) == TRUE

\* A send on a buffered channel proceeds when the buffer is not full.
CanSend(ch) == ch.len < ch.cap

\* A receive that proceeds although the buffer is empty.
CanRecv_Always(ch) == TRUE

\* A receive from a buffered channel proceeds when the buffer is not empty.
CanRecv(ch) == ch.len > 0

\* A task calls TryAcquire(ctx) with a context that is not yet done and
\* reaches the select.
CallTryAcquire(t) ==
    /\ lim[t].pc = "idle"
    /\ lim' = [lim EXCEPT ![t] = [pc |-> "acquire", done |-> FALSE, res |-> "none", status |-> 0]]
    /\ UNCHANGED <<sem, acquired, released>>

\* The context of a task waiting in the select is cancelled.
CtxCancel(t) ==
    /\ lim[t].pc = "acquire" /\ ~lim[t].done
    /\ lim' = [lim EXCEPT ![t].done = TRUE]
    /\ UNCHANGED <<sem, acquired, released>>

\* TryAcquire, case i.sem <- struct{}{}: the send proceeds, nil is returned.
\* select may take this case also when ctx.Done() is ready.
TryAcquireSend(t) ==
    /\ lim[t].pc = "acquire"
    /\ CanSend(sem)
    /\ acquired < MaxCalls
    /\ sem' = [sem EXCEPT !.len = @ + 1]
    /\ acquired' = acquired + 1
    /\ lim' = [lim EXCEPT ![t] = [pc |-> "idle", done |-> FALSE, res |-> "nil", status |-> 0]]
    /\ UNCHANGED released

\* TryAcquire returning ctx.Err() after its send went through all the same.
TryAcquireCtxDone_TakesSlot(t) ==
    /\ lim[t].pc = "acquire" /\ lim[t].done
    /\ CanSend(sem)
    /\ sem' = [sem EXCEPT !.len = @ + 1]
    /\ lim' = [lim EXCEPT ![t] = [pc |-> "idle", done |-> FALSE, res |-> "ctx.Err", status |-> 0]]
    /\ UNCHANGED <<acquired, released>>

\* TryAcquire, case <-ctx.Done(): ctx.Err() is returned, no slot is taken.
TryAcquireCtxDone(t) ==
    /\ lim[t].pc = "acquire" /\ lim[t].done
    /\ lim' = [lim EXCEPT ![t] = [pc |-> "idle", done |-> FALSE, res |-> "ctx.Err", status |-> 0]]
    /\ UNCHANGED <<sem, acquired, released>>

\* A task calls Release and reaches the receive, whether or not it holds a
\* slot.
CallRelease(t) ==
    /\ lim[t].pc = "idle"
    /\ lim' = [lim EXCEPT ![t] = [pc |-> "release", done |-> FALSE, res |-> "none", status |-> 0]]
    /\ UNCHANGED <<sem, acquired, released>>

\* Release returning without a receive: the value stays in the channel.
ReleaseRecv_KeepsSlot(t) ==
    /\ lim[t].pc = "release"
    /\ CanRecv(sem)
    /\ released < acquired
    /\ released' = released + 1
    /\ lim' = [lim EXCEPT ![t] = [pc |-> "idle", done |-> FALSE, res |-> "none", status |-> 0]]
    /\ UNCHANGED <<sem, acquired>>

\* Release, <-i.sem: the receive proceeds when a value is buffered and
\* blocks otherwise.
ReleaseRecv(t) ==
    /\ lim[t].pc = "release"
    /\ CanRecv(sem)
    /\ sem' = [sem EXCEPT !.len = @ - 1]
    /\ released' = released + 1
    /\ lim' = [lim EXCEPT ![t] = [pc |-> "idle", done |-> FALSE, res |-> "none", status |-> 0]]
    /\ UNCHANGED acquired

\* config.go keeps MaxIO at 1 or more before server.go makes the limiter.
InitLimiter ==
    /\ \E n \in 1..MaxCap : sem = NewIOLimiter(n)
    /\ lim = [t \in Tasks |-> [pc |-> "idle", done |-> FALSE, res |-> "none", status |-> 0]]
    /\ acquired = 0
    /\ released = 0

InitWithLimiter == InitRegistry /\ InitLimiter /\ InitResourceIdle /\ InitIdle

NextLimiter ==
    \/ \E t \in Tasks : CallTryAcquire(t)
    \/ \E t \in Tasks : CtxCancel(t)
    \/ \E t \in Tasks : TryAcquireSend(t)
    \/ \E t \in Tasks : TryAcquireCtxDone(t)
    \/ \E t \in Tasks : CallRelease(t)
    \/ \E t \in Tasks : ReleaseRecv(t)

SpecLimiter ==
    InitWithLimiter /\ [][NextLimiter /\ UNCHANGED <<regVars, resVars, mgrVars, scanVars, lockVars, appVars>>]_vars

\* The Go scheduler runs a goroutine whose select has a ready case: a task
\* in TryAcquire is not left waiting forever beside a channel with room.
FairLimiter ==
    \A t \in Tasks : WF_vars(TryAcquireSend(t) /\ UNCHANGED <<regVars, resVars, mgrVars, scanVars, lockVars, appVars>>)

SpecLimiterFair ==
    /\ InitWithLimiter
    /\ [][NextLimiter /\ UNCHANGED <<regVars, resVars, mgrVars, scanVars, lockVars, appVars>>]_vars
    /\ FairLimiter

\* The slots held: successful TryAcquire calls not yet matched by a Release.
Held == acquired - released

\* Task t is inside TryAcquire and its context is not done.
Waiting(t) == lim[t].pc = "acquire" /\ ~lim[t].done

(***************************************************************************)
(* The serving handlers of one volume.  Every task serves one request at a *)
(* time; lim[t].pc is the handler's place.  Handler.Stream takes a slot of *)
(* the volume's limiter around OpenResource, AdapterDirectStream calls     *)
(* OpenResource at once.  A Resource is open from OpenResource's return to *)
(* the deferred Close.                                                     *)
(***************************************************************************)
At(t, pc, res) ==
    [lim EXCEPT ![t] = [pc |-> pc, done |-> FALSE, res |-> res, status |-> 0]]

\* The handler called http.Error(w, ..., status) for the error err.
Answered(t, pc, err, status) ==
    [lim EXCEPT ![t] = [pc |-> pc, done |-> FALSE, res |-> err, status |-> status]]

\* The errors OpenResource has for a handler: the mode is unknown,
\* OpenFile's ErrPathOutsideRoot, a missing file, and any other error (of
\* the file system, or the volume that is not mounted).
OpenErrors == {"ErrUnsupportedMode", "ErrPathOutsideRoot", "ErrNotExist", "EIO"}

\* Stream: every error of OpenResource is answered alike.
StreamStatus(err) == 500

\* AdapterDirectStream: the switch over the error of OpenResource.
AdapterDirectStreamStatus(err) ==
    CASE err = "ErrPathOutsideRoot" -> 403
      [] err = "ErrNotExist" -> 404
      [] err = "ErrUnsupportedMode" -> 501
      [] OTHER -> 500

\* Stream: entry and mount were found; TryAcquire(r.Context()) is called.
Stream_TryAcquire(t) ==
    /\ lim[t].pc = "idle"
    /\ lim' = At(t, "stream.acquire", "none")
    /\ UNCHANGED <<sem, acquired, released>>

\* Stream: TryAcquire(r.Context()) is called for a request whose client
\* has gone away already: the context is done before the select.
Stream_TryAcquire_Gone(t) ==
    /\ lim[t].pc = "idle"
    /\ lim' = [lim EXCEPT ![t] = [pc |-> "stream.acquire", done |-> TRUE,
                                  res |-> "none", status |-> 0]]
    /\ UNCHANGED <<sem, acquired, released>>

\* The client of a request waiting for a slot goes away.
Stream_CtxCancel(t) ==
    /\ lim[t].pc = "stream.acquire" /\ ~lim[t].done
    /\ lim' = [lim EXCEPT ![t].done = TRUE]
    /\ UNCHANGED <<sem, acquired, released>>

\* Stream: TryAcquire returned nil; Release is deferred.
Stream_Acquired(t) ==
    /\ lim[t].pc = "stream.acquire"
    /\ CanSend(sem)
    /\ acquired < MaxCalls
    /\ sem' = [sem EXCEPT !.len = @ + 1]
    /\ acquired' = acquired + 1
    /\ lim' = At(t, "stream.open", "nil")
    /\ UNCHANGED released

\* Stream: TryAcquire returned the context's error; 503 and return.
Stream_Busy(t) ==
    /\ lim[t].pc = "stream.acquire" /\ lim[t].done
    /\ lim' = At(t, "idle", "ctx.Err")
    /\ UNCHANGED <<sem, acquired, released>>

\* Stream whose return on an OpenResource error runs no deferred Release.
Stream_OpenResource_ErrorSkipsRelease(t) ==
    /\ lim[t].pc = "stream.open"
    /\ \/ lim' = At(t, "stream.serving", "nil")
       \/ \E err \in OpenErrors : lim' = Answered(t, "idle", err, StreamStatus(err))
    /\ UNCHANGED <<sem, acquired, released>>

\* Stream: OpenResource returns a Resource (Close is deferred, the content
\* is served) or an error (500 and return, the deferred Release runs).
Stream_OpenResource(t) ==
    /\ lim[t].pc = "stream.open"
    /\ \/ lim' = At(t, "stream.serving", "nil")
       \/ \E err \in OpenErrors :
             lim' = Answered(t, "stream.release", err, StreamStatus(err))
    /\ UNCHANGED <<sem, acquired, released>>

\* Stream whose deferred calls run first-in first-out: the slot is given
\* back while the Resource is still open.
Stream_Close_ReleasesFirst(t) ==
    /\ lim[t].pc = "stream.serving" /\ lim[t].res = "nil"
    /\ CanRecv(sem)
    /\ sem' = [sem EXCEPT !.len = @ - 1]
    /\ released' = released + 1
    /\ lim' = At(t, "stream.serving", "released")
    /\ UNCHANGED acquired

\* Stream returns, ServeContent having served the content or given up on a
\* client that went away: the deferred resource.Close() runs first.
Stream_Close(t) ==
    /\ lim[t].pc = "stream.serving"
    /\ lim' = At(t, "stream.release", "nil")
    /\ UNCHANGED <<sem, acquired, released>>

\* Stream returns: the deferred Release receives from the channel.
Stream_Release(t) ==
    /\ lim[t].pc = "stream.release"
    /\ CanRecv(sem)
    /\ sem' = [sem EXCEPT !.len = @ - 1]
    /\ released' = released + 1
    /\ lim' = At(t, "idle", "none")
    /\ UNCHANGED acquired

\* AdapterDirectStream: the entry was found and OpenResource returned a
\* Resource; Close is deferred.  No limiter is consulted.
AdapterDirectStream_OpenResource(t) ==
    /\ lim[t].pc = "idle"
    /\ lim' = At(t, "direct.serving", "none")
    /\ UNCHANGED <<sem, acquired, released>>

\* AdapterDirectStream: OpenResource returned an error; it is answered.
AdapterDirectStream_OpenError(t) ==
    /\ lim[t].pc = "idle"
    /\ \E err \in OpenErrors :
          lim' = Answered(t, "direct.failed", err, AdapterDirectStreamStatus(err))
    /\ UNCHANGED <<sem, acquired, released>>

\* AdapterDirectStream returns after the answer to an error.
AdapterDirectStream_Return(t) ==
    /\ lim[t].pc = "direct.failed"
    /\ lim' = At(t, "idle", "none")
    /\ UNCHANGED <<sem, acquired, released>>

\* AdapterDirectStream returns: the deferred resource.Close() runs.
AdapterDirectStream_Close(t) ==
    /\ lim[t].pc = "direct.serving"
    /\ lim' = At(t, "idle", "none")
    /\ UNCHANGED <<sem, acquired, released>>

NextHandlers ==
    \/ \E t \in Tasks : Stream_TryAcquire(t)
    \/ \E t \in Tasks : Stream_TryAcquire_Gone(t)
    \/ \E t \in Tasks : Stream_CtxCancel(t)
    \/ \E t \in Tasks : Stream_Acquired(t)
    \/ \E t \in Tasks : Stream_Busy(t)
    \/ \E t \in Tasks : Stream_OpenResource(t)
    \/ \E t \in Tasks : Stream_Close(t)
    \/ \E t \in Tasks : Stream_Release(t)
    \/ \E t \in Tasks : AdapterDirectStream_OpenResource(t)
    \/ \E t \in Tasks : AdapterDirectStream_OpenError(t)
    \/ \E t \in Tasks : AdapterDirectStream_Return(t)
    \/ \E t \in Tasks : AdapterDirectStream_Close(t)

SpecHandlers ==
    InitWithLimiter /\ [][NextHandlers /\ UNCHANGED <<regVars, resVars, mgrVars, scanVars, lockVars, appVars>>]_vars

\* The tasks inside Stream between a successful TryAcquire and the
\* deferred Release.
StreamHolders == {t \in Tasks : lim[t].pc \in {"stream.open", "stream.serving", "stream.release"}}

\* The tasks that hold an open Resource of the volume.
OpenResources == {t \in Tasks : lim[t].pc \in {"stream.serving", "direct.serving"}}

(***************************************************************************)
(* Resources.  One file of known content is read through a Buffered        *)
(* resource (an os.File at fpos under a bufio.Reader whose unread bytes    *)
(* are buf) and, as the reference, through a Direct resource (an os.File   *)
(* at dpos) that is given the same Seeks and reads the bytes the Buffered  *)
(* one delivered.  bufio raises a size under 16 to 16; bufSize is the size *)
(* the reader ends up with.                                                *)
(***************************************************************************)
Min(a, b) == IF a < b THEN a ELSE b

\* The byte at every offset of the file: all different.
FileContent(size) == [i \in 1..size |-> i - 1]

\* os.File.Read of up to n bytes at pos: the bytes up to the end of file.
FileRead(size, pos, n) ==
    IF pos >= size THEN <<>>
    ELSE SubSeq(FileContent(size), pos + 1, pos + Min(n, size - pos))

\* os.File.Seek: the new position, or an error when it would be negative.
FileSeek(size, pos, offset, whence) ==
    LET base == CASE whence = "SeekStart" -> 0
                  [] whence = "SeekCurrent" -> pos
                  [] whence = "SeekEnd" -> size
        target == base + offset
    IN IF target < 0 THEN [err |-> TRUE, pos |-> pos, ret |-> 0]
       ELSE [err |-> FALSE, pos |-> target, ret |-> target]

\* A reader that reports nothing buffered.
Buffered_Zero(b) == 0

\* bufio.Reader.Buffered: the bytes read from the file and not yet returned.
Buffered(b) == Len(b.buf)

\* A reader that keeps its buffer when reset.
Reset_KeepsBuffer(b) == b

\* bufio.Reader.Reset: the buffer is discarded.
Reset(b) == [b EXCEPT !.buf = <<>>]

\* bufio.Reader.Discard(n) with n bytes buffered: they are skipped.
Discard(b, n) == [b EXCEPT !.buf = SubSeq(b.buf, n + 1, Len(b.buf))]

\* bufio.Reader.Read into a slice of length n.  With an empty buffer a
\* slice at least as long as the buffer is read into directly, a shorter
\* one after one fill of the buffer; then what is buffered is copied.
BufferedRead(b, n) ==
    IF n = 0 THEN [b |-> b, bytes |-> <<>>, err |-> FALSE]
    ELSE IF b.buf = <<>> /\ n >= b.bufSize
    THEN LET got == FileRead(b.size, b.fpos, n)
         IN [b |-> [b EXCEPT !.fpos = @ + Len(got)], bytes |-> got, err |-> got = <<>>]
    ELSE LET got == IF b.buf = <<>> THEN FileRead(b.size, b.fpos, b.bufSize) ELSE <<>>
             filled == IF b.buf = <<>>
                       THEN [b EXCEPT !.fpos = @ + Len(got), !.buf = got]
                       ELSE b
             k == Min(n, Len(filled.buf))
         IN [b |-> Discard(filled, k), bytes |-> SubSeq(filled.buf, 1, k),
             err |-> filled.buf = <<>>]

\* A Seek that never takes the position query's early return.
IsPositionQuery_Never(offset, whence) == FALSE

\* Seek, first case: whence == io.SeekCurrent && offset == 0.
IsPositionQuery(offset, whence) == whence = "SeekCurrent" /\ offset = 0

\* A relative seek that forgets the bytes still buffered.
AdjustedOffset_Unadjusted(b, offset, whence) == offset

\* Seek, third case: a relative offset is counted from the logical position,
\* Buffered() bytes behind the descriptor's.
AdjustedOffset(b, offset, whence) ==
    IF whence = "SeekCurrent" THEN offset - Buffered(b) ELSE offset

\* A Seek that resets the reader before it reads Buffered(): the relative
\* offset is counted from the descriptor's position.
BufferedSeek_ResetFirst(b, offset, whence) ==
    IF IsPositionQuery(offset, whence)
    THEN [b |-> b, pos |-> FileSeek(b.size, b.fpos, 0, "SeekCurrent").ret - Buffered(b),
          err |-> FALSE]
    ELSE IF whence = "SeekCurrent" /\ offset > 0 /\ offset <= Buffered(b)
    THEN LET d == Discard(b, offset)
         IN [b |-> d, pos |-> FileSeek(d.size, d.fpos, 0, "SeekCurrent").ret - Buffered(d),
             err |-> FALSE]
    ELSE LET sk == FileSeek(b.size, b.fpos, AdjustedOffset(Reset(b), offset, whence), whence)
         IN IF sk.err THEN [b |-> b, pos |-> 0, err |-> TRUE]
            ELSE [b |-> Reset([b EXCEPT !.fpos = sk.pos]), pos |-> sk.ret, err |-> FALSE]

\* BufferedFileResource.Seek.
BufferedSeek(b, offset, whence) ==
    IF IsPositionQuery(offset, whence)
    THEN [b |-> b, pos |-> FileSeek(b.size, b.fpos, 0, "SeekCurrent").ret - Buffered(b),
          err |-> FALSE]
    ELSE IF whence = "SeekCurrent" /\ offset > 0 /\ offset <= Buffered(b)
    THEN LET d == Discard(b, offset)
         IN [b |-> d, pos |-> FileSeek(d.size, d.fpos, 0, "SeekCurrent").ret - Buffered(d),
             err |-> FALSE]
    ELSE LET sk == FileSeek(b.size, b.fpos, AdjustedOffset(b, offset, whence), whence)
         IN IF sk.err THEN [b |-> b, pos |-> 0, err |-> TRUE]
            ELSE [b |-> Reset([b EXCEPT !.fpos = sk.pos]), pos |-> sk.ret, err |-> FALSE]

\* The position the next byte a Read delivers comes from.
LogicalPos(b) == b.fpos - Buffered(b)

\* newBufferedFileResource and newFileResource over a file just opened.
OpenedResource(size, bufSize) ==
    [size |-> size, bufSize |-> bufSize, fpos |-> 0, buf |-> <<>>, dpos |-> 0,
     sought |-> -1, dropped |-> 0, last |-> NoResult]

\* Read(p) with len(p) = n on the Buffered resource; the Direct resource
\* reads the same number of bytes as were delivered.
Resource_Read(n) ==
    LET r == BufferedRead(rsrc, n)
        d == FileRead(rsrc.size, rsrc.dpos, n)
        taken == FileRead(rsrc.size, rsrc.dpos, Len(r.bytes))
    IN rsrc' = [r.b EXCEPT
          !.dpos = @ + Len(taken),
          !.last = [NoResult EXCEPT
                      !.op = "Read", !.len = n,
                      !.bytes = r.bytes, !.pos = rsrc.sought, !.err = r.err,
                      !.dbytes = d, !.derr = (d = <<>> /\ n > 0),
                      !.buffered = rsrc.dropped,
                      !.changed = (r.b.fpos # rsrc.fpos \/ r.b.buf # rsrc.buf)],
          !.sought = -1, !.dropped = 0]

\* Seek(offset, whence) on both resources.
Resource_Seek(offset, whence) ==
    LET r == BufferedSeek(rsrc, offset, whence)
        d == FileSeek(rsrc.size, rsrc.dpos, offset, whence)
    IN /\ d.pos <= rsrc.size + 2
       /\ rsrc' = [r.b EXCEPT
             !.dpos = d.pos,
             !.last = [NoResult EXCEPT
                         !.op = "Seek", !.offset = offset, !.whence = whence,
                         !.pos = r.pos, !.err = r.err,
                         !.dpos = d.ret, !.derr = d.err,
                         !.buffered = Buffered(rsrc),
                         !.changed = (r.b.fpos # rsrc.fpos \/ r.b.buf # rsrc.buf)],
             !.sought = IF whence = "SeekStart" /\ ~r.err THEN r.pos ELSE -1,
             !.dropped = IF whence = "SeekStart" /\ ~r.err THEN Buffered(rsrc) ELSE 0]

Whences == {"SeekStart", "SeekCurrent", "SeekEnd"}
Offsets == (0 - MaxFile - 1)..(MaxFile + 1)
FileSizes == {0, MaxFile}
BufSizes == 2..MaxBuf

InitResource == \E size \in FileSizes : \E bufSize \in BufSizes :
                    rsrc = OpenedResource(size, bufSize)

InitWithResource == InitRegistry /\ InitLimiterIdle /\ InitResource /\ InitIdle

NextResource ==
    \/ \E n \in 0..MaxRead : Resource_Read(n)
    \/ \E offset \in Offsets : \E whence \in Whences : Resource_Seek(offset, whence)

SpecResource ==
    InitWithResource /\ [][NextResource /\ UNCHANGED <<regVars, limVars, mgrVars, scanVars, lockVars, appVars>>]_vars

(***************************************************************************)
(* Manager.OpenResource and the path resolver.  A path is the sequence of  *)
(* its segments; an absolute path starts with the empty segment.  Every    *)
(* mount root holds the same tree: m.mp4, A/m.mp4, the symbolic links      *)
(* up -> ../secret, abs -> /secret and in -> A; the file secret next to    *)
(* the root exists or not (outside).                                       *)
(***************************************************************************)
Dirs == {<<>>, <<"A">>}
Files(outside) ==
    {<<"m.mp4">>, <<"A", "m.mp4">>} \cup (IF outside THEN {<<"..", "secret">>} ELSE {})
Links == {<<"up">>, <<"abs">>, <<"in">>}
LinkTarget(loc) ==
    CASE loc = <<"up">> -> <<"..", "secret">>
      [] loc = <<"abs">> -> <<"", "secret">>
      [] loc = <<"in">> -> <<"A">>

\* os.OpenInRoot(root, name): the name is walked segment by segment from
\* the root.  An absolute name, a .. above the root and a symbolic link
\* with such a target fail with the package's errPathEscapes, before
\* anything outside the root is looked at.
RECURSIVE Resolve(_, _, _, _)
Resolve(parts, cur, links, outside) ==
    IF parts = <<>> THEN "ok"
    ELSE LET head == Head(parts)
             rest == Tail(parts)
             loc == Append(cur, head)
         IN IF head = "" THEN "errPathEscapes"
            ELSE IF head = ".."
            THEN IF cur = <<>> THEN "errPathEscapes"
                 ELSE Resolve(rest, SubSeq(cur, 1, Len(cur) - 1), links, outside)
            ELSE IF loc \in Dirs THEN Resolve(rest, loc, links, outside)
            ELSE IF loc \in Files(outside)
            THEN IF rest = <<>> THEN "ok" ELSE "ENOTDIR"
            ELSE IF loc \in Links
            THEN IF links = 0 THEN "ELOOP"
                 ELSE Resolve(LinkTarget(loc) \o rest, cur, links - 1, outside)
            ELSE "ErrNotExist"

OpenInRoot(name, outside) == Resolve(name, <<>>, MaxLinks, outside)

\* errors.Is(err, fs.ErrInvalid): errPathEscapes is a value of its own made
\* with errors.New; it neither is nor wraps fs.ErrInvalid.
IsErrInvalid(err) == err = "ErrInvalid"

\* Manager.OpenFile: an error that is fs.ErrInvalid is wrapped into
\* ErrPathOutsideRoot, any other error is returned as it is.
OpenFile(relPath, outside) ==
    LET err == OpenInRoot(relPath, outside)
    IN IF err = "ok" THEN "ok"
       ELSE IF IsErrInvalid(err) THEN "ErrPathOutsideRoot"
       ELSE err

\* A lookup of the volume that always finds one.
VolumeMounted_Always(m, vol) == TRUE

\* OpenResource: vol, ok := m.Volumes[entry.MountID].
VolumeMounted(m, vol) == vol \in m.mounted

\* A return on the error of file.Stat that leaves the file open.
CloseOnStatError_Skipped(fds) == fds

\* file.Close() on the error of file.Stat: the descriptor is given back.
CloseOnStatError(fds) == fds - 1

\* openDirectFile: OpenFile, then file.Stat; fds is the number of
\* descriptors the call leaves open, stat tells that file.Stat failed.
openDirectFile(m, path, statFails) ==
    LET err == OpenFile(path, m.outside)
    IN IF err # "ok"
       THEN [err |-> err, opened |-> FALSE, tried |-> TRUE, fds |-> 0, stat |-> FALSE]
       ELSE IF statFails
       THEN [err |-> "StatError", opened |-> FALSE, tried |-> TRUE,
             fds |-> CloseOnStatError(1), stat |-> TRUE]
       ELSE [err |-> "ok", opened |-> TRUE, tried |-> TRUE, fds |-> 1, stat |-> FALSE]

\* openBufferedFile: the same steps, the reader is made over the file.
openBufferedFile(m, path, statFails) ==
    LET err == OpenFile(path, m.outside)
    IN IF err # "ok"
       THEN [err |-> err, opened |-> FALSE, tried |-> TRUE, fds |-> 0, stat |-> FALSE]
       ELSE IF statFails
       THEN [err |-> "StatError", opened |-> FALSE, tried |-> TRUE,
             fds |-> CloseOnStatError(1), stat |-> TRUE]
       ELSE [err |-> "ok", opened |-> TRUE, tried |-> TRUE, fds |-> 1, stat |-> FALSE]

\* Manager.OpenResource(entry): the volume is looked up, then the mode
\* decides between openDirectFile and openBufferedFile.
OpenResourceResult(m, vol, path, statFails) ==
    IF ~VolumeMounted(m, vol)
    THEN [err |-> "VolumeNotFound", opened |-> FALSE, tried |-> FALSE, fds |-> 0,
          stat |-> FALSE]
    ELSE IF m.mode = ModeFileDirect THEN openDirectFile(m, path, statFails)
    ELSE IF m.mode = ModeFileBuffered THEN openBufferedFile(m, path, statFails)
    ELSE [err |-> "ErrUnsupportedMode", opened |-> FALSE, tried |-> FALSE, fds |-> 0,
          stat |-> FALSE]

\* A handler calls OpenResource for an entry of volume vol with Path path;
\* file.Stat, reached when the file was opened, succeeds or fails.
OpenResource(vol, path) ==
    /\ mgr.last.op = "None"
    /\ \E statFails \in IF OpenResourceResult(mgr, vol, path, FALSE).opened
                        THEN BOOLEAN ELSE {FALSE} :
          LET r == OpenResourceResult(mgr, vol, path, statFails)
          IN mgr' = [mgr EXCEPT
                 !.fds = @ + r.fds,
                 !.last =
                    [op |-> "OpenResource", vol |-> vol, path |-> path,
                     err |-> r.err, opened |-> r.opened, tried |-> r.tried,
                     escapes |-> (OpenInRoot(path, mgr.outside) = "errPathEscapes"),
                     stat |-> r.stat]]

\* The handler is done with what OpenResource returned: it closes the
\* Resource (Close closes the file) or reports the error, and returns.
Handler_Return ==
    /\ mgr.last.op = "OpenResource"
    /\ mgr' = [mgr EXCEPT !.fds = IF mgr.last.opened THEN @ - 1 ELSE @,
                          !.last = NoOpen]

Segments == {"..", "A", "m.mp4", "up", "abs", ""}
RelPaths == UNION {[1..n -> Segments] : n \in 1..MaxSegs}
Modes == {ModeUnknown, ModeFileDirect, ModeFileBuffered, ModeFileBuffered + 1}

\* NewManager with any mode, AddMount for any of the volumes.
InitManager ==
    \E mode \in Modes : \E mounted \in SUBSET Volumes : \E outside \in BOOLEAN :
        mgr = [mode |-> mode, mounted |-> mounted, outside |-> outside, fds |-> 0,
               last |-> NoOpen]

InitWithManager ==
    /\ InitRegistry /\ InitLimiterIdle /\ InitResourceIdle /\ InitManager
    /\ InitScannerIdle /\ InitLockIdle /\ InitAppIdle

NextManager ==
    \/ \E vol \in Volumes : \E path \in RelPaths : OpenResource(vol, path)
    \/ Handler_Return

SpecManager ==
    InitWithManager
    /\ [][NextManager /\ UNCHANGED <<regVars, limVars, resVars, scanVars, lockVars, appVars>>]_vars

(***************************************************************************)
(* The background scanner.  StartScanning starts a goroutine and returns;  *)
(* the goroutine runs scanAll (a Scan of every mounted volume, in the      *)
(* order the map yields them), makes a ticker, and then selects between    *)
(* ctx.Done() and the ticker's channel, which holds at most one tick.      *)
(* scn.disk is what is under every volume's root.                          *)
(***************************************************************************)
Scanning == {"scanning0", "scanning"}

\* What the scanner may find at a volume's root: a content, or no root.
Roots(vol) == FsStates(vol) \cup {NoRoot}

\* Files appear, change or go away under a volume's root.
Disk_Change(vol, files) ==
    /\ Running
    /\ scn.disk[vol] # files
    /\ scn' = [scn EXCEPT !.disk[vol] = files]
    /\ UNCHANGED regVars

\* StartScanning: go func() { ... }() and return.
StartScanning ==
    /\ Running
    /\ scn.pc = "none"
    /\ scn' = [scn EXCEPT !.pc = "start", !.returned = TRUE]
    /\ UNCHANGED regVars

\* The goroutine calls scanAll() before it makes the ticker.
Scanner_FirstScanAll ==
    /\ Running
    /\ scn.pc = "start"
    /\ scn' = [scn EXCEPT !.pc = "scanning0", !.todo = Volumes]
    /\ UNCHANGED regVars

\* scanAll: the next volume of the range is scanned; ctx is not looked at,
\* and an error Scan returns is logged, nothing else.  After the last one
\* the goroutine is at the select.  failed is history: a Scan of this
\* scanner met a root it could not walk.
Scanner_Scan(vol) ==
    /\ scn.pc \in Scanning
    /\ vol \in scn.todo
    /\ Scan(vol, scn.disk[vol])
    /\ scn' = [scn EXCEPT !.todo = @ \ {vol},
                          !.failed = @ \/ RootFails(scn.disk[vol]),
                          !.pc = IF scn.todo = {vol} THEN "select" ELSE @]

\* The ticker fires: its channel takes one tick and drops the others.
Ticker_Tick ==
    /\ Running
    /\ scn.pc \in {"scanning", "select"}
    /\ ~scn.tick
    /\ scn' = [scn EXCEPT !.tick = TRUE]
    /\ UNCHANGED regVars

\* The context passed to StartScanning is cancelled.
Ctx_Cancel ==
    /\ Running
    /\ scn.pc # "none"
    /\ ~scn.cancelled
    /\ scn' = [scn EXCEPT !.cancelled = TRUE]
    /\ UNCHANGED regVars

\* select, case <-ticker.C: scanAll().  With ctx.Done() ready as well the
\* select takes either case.
Scanner_SelectTick ==
    /\ Running
    /\ scn.pc = "select"
    /\ scn.tick
    /\ scn' = [scn EXCEPT !.tick = FALSE, !.pc = "scanning", !.todo = Volumes]
    /\ UNCHANGED regVars

\* select, case <-ctx.Done(): return.
Scanner_SelectDone ==
    /\ Running
    /\ scn.pc = "select"
    /\ scn.cancelled
    /\ scn' = [scn EXCEPT !.pc = "stopped", !.tick = FALSE]
    /\ UNCHANGED regVars

InitScanner ==
    \E d \in [Volumes -> UNION {Roots(vol) : vol \in Volumes}] :
       /\ \A vol \in Volumes : d[vol] \in Roots(vol)
       /\ scn = [pc |-> "none", todo |-> {}, cancelled |-> FALSE, tick |-> FALSE,
                 returned |-> FALSE, failed |-> FALSE, disk |-> d]

InitWithScanner ==
    /\ InitRegistry /\ InitLimiterIdle /\ InitResourceIdle /\ InitManagerIdle
    /\ InitScanner /\ InitLockIdle /\ InitAppIdle

NextScanner ==
    \/ \E vol \in Volumes : \E files \in Roots(vol) : Disk_Change(vol, files)
    \/ StartScanning
    \/ Scanner_FirstScanAll
    \/ \E vol \in Volumes : Scanner_Scan(vol)
    \/ Ticker_Tick
    \/ Ctx_Cancel
    \/ Scanner_SelectTick
    \/ Scanner_SelectDone

SpecScanner ==
    InitWithScanner
    /\ [][NextScanner /\ UNCHANGED <<limVars, resVars, mgrVars, lockVars, appVars>>]_vars

(***************************************************************************)
(* The Registry under concurrent callers.  mu is the RWMutex: w the task   *)
(* holding it for writing (0: none), r the tasks holding it for reading.   *)
(* tsk is the place of every task: idle, walking (inside Scan, before      *)
(* r.mu.Lock()), locked (inside Scan, holding the lock), listing or        *)
(* getting (inside List or Get, holding the read lock).                    *)
(***************************************************************************)
ScanTasks == {1, 2}
ReadTasks == {3}
RegTasks == ScanTasks \cup ReadTasks

IdleTask == [pc |-> "idle", vol |-> NoVolume, meta |-> EmptyMap, nid |-> 0, id |-> Nil]

\* sync.RWMutex: Lock proceeds when nobody holds the lock, RLock when no
\* writer holds it.
CanLock(m) == m.w = 0 /\ m.r = {}
CanRLock(m) == m.w = 0

\* The roots concurrent Scans walk.
WalkedRoots(vol) ==
    {f \in FsStates(vol) :
        /\ \A p \in DOMAIN f : f[p] = File(5, TRUE)
        /\ DOMAIN f \subseteq AlwaysThere(vol) \/ S_m_mp4 \in DOMAIN f}

\* Scan with the lock taken before the walk.
Scan_Walk_UnderLock(t, vol, files) ==
    /\ Running
    /\ tsk[t].pc = "idle"
    /\ CanLock(mu)
    /\ mu' = [mu EXCEPT !.w = t]
    /\ tsk' = [tsk EXCEPT ![t] = [IdleTask EXCEPT !.pc = "walking", !.vol = vol,
                                                  !.meta = WalkMeta(files),
                                                  !.nid = nextID]]
    /\ UNCHANGED <<regVars, inserted>>

\* Scan up to r.mu.Lock(): the walk builds meta with no lock held.  nid is
\* history: the next identifier when the task's last walk was made.
Scan_Walk(t, vol, files) ==
    /\ Running
    /\ tsk[t].pc = "idle"
    /\ tsk' = [tsk EXCEPT ![t] = [IdleTask EXCEPT !.pc = "walking", !.vol = vol,
                                                  !.meta = WalkMeta(files),
                                                  !.nid = nextID]]
    /\ UNCHANGED <<regVars, mu, inserted>>

\* r.mu.Lock() in Scan.
Scan_Lock(t) ==
    /\ Running
    /\ tsk[t].pc = "walking"
    /\ CanLock(mu)
    /\ mu' = [mu EXCEPT !.w = t]
    /\ tsk' = [tsk EXCEPT ![t].pc = "locked"]
    /\ UNCHANGED <<regVars, inserted>>

\* The identifiers a Scan gives out come from uuid.NewV7 calls made in the
\* additions loop, as if from the identifier counter at discovery.
EntryIDBase_AtDiscovery(atWalk, atApply) == atWalk

\* The identifiers a Scan gives out come from uuid.NewV7 calls made in the
\* additions loop, under the lock: from the identifier counter as it is then.
EntryIDBase(atWalk, atApply) == atApply

\* The ascending sequence of a set of identifiers: NewEntry is called once
\* per addition and its entry inserted before the next call.
RECURSIVE Ascending(_)
Ascending(S) ==
    IF S = {} THEN <<>>
    ELSE LET m == CHOOSE x \in S : \A y \in S : x <= y
         IN <<m>> \o Ascending(S \ {m})

\* The diff-and-apply step of Scan and the deferred Unlock, which also runs
\* when the step panics.
Scan_Apply(t) ==
    /\ Running
    /\ tsk[t].pc = "locked"
    /\ \E out \in ScanOutcomes(byUUID, byPath, EntryIDBase(tsk[t].nid, nextID),
                                tsk[t].vol, tsk[t].meta) :
          /\ out.nextID - 1 <= MaxID
          /\ byUUID' = out.byUUID
          /\ byPath' = out.byPath
          /\ nextID' = out.nextID
          /\ everPresent' = everPresent \cup out.added
          /\ inserted' = inserted \o Ascending(out.added)
          /\ ret' = Observed([Call("Scan") EXCEPT !.vol = tsk[t].vol, !.id = t,
                                                     !.panicked = out.panicked],
                             byUUID', byPath')
    /\ mu' = [mu EXCEPT !.w = 0]
    /\ tsk' = [tsk EXCEPT ![t] = [IdleTask EXCEPT !.nid = tsk[t].nid]]

\* r.mu.RLock() in List.
List_RLock(t) ==
    /\ Running
    /\ tsk[t].pc = "idle"
    /\ CanRLock(mu)
    /\ mu' = [mu EXCEPT !.r = @ \cup {t}]
    /\ tsk' = [tsk EXCEPT ![t].pc = "listing"]
    /\ UNCHANGED <<regVars, inserted>>

\* The rest of List and the deferred RUnlock.
List_Return(t) ==
    /\ tsk[t].pc = "listing"
    /\ List
    /\ mu' = [mu EXCEPT !.r = @ \ {t}]
    /\ tsk' = [tsk EXCEPT ![t] = IdleTask]
    /\ UNCHANGED inserted

\* Get up to r.mu.RLock(); the nil identifier returns before it.
Get_RLock(t, id) ==
    /\ tsk[t].pc = "idle"
    /\ IF id = Nil
       THEN Get(id) /\ UNCHANGED <<mu, tsk, inserted>>
       ELSE /\ Running
            /\ CanRLock(mu)
            /\ mu' = [mu EXCEPT !.r = @ \cup {t}]
            /\ tsk' = [tsk EXCEPT ![t].pc = "getting", ![t].id = id]
            /\ UNCHANGED <<regVars, inserted>>

\* The lookup of Get, r.mu.RUnlock() and the return.
Get_Return(t) ==
    /\ tsk[t].pc = "getting"
    /\ Get(tsk[t].id)
    /\ mu' = [mu EXCEPT !.r = @ \ {t}]
    /\ tsk' = [tsk EXCEPT ![t] = IdleTask]
    /\ UNCHANGED inserted

\* Add by a task of its own: Lock, both writes, the deferred Unlock.
Add_Locked(e) ==
    /\ CanLock(mu)
    /\ Add(e)
    /\ UNCHANGED lockVars

\* Each scanning task scans one volume.
VolumeOf(t) == IF t = 1 THEN "v1" ELSE "v2"

\* The entries added while Scans run: literals that leave UUID zero.
ConcurrentAdds == {e \in AddInputs : e.UUID = Nil /\ e.Path = S_m_mp4}

InitLock ==
    /\ mu = [w |-> 0, r |-> {}]
    /\ tsk = [t \in RegTasks |-> IdleTask]
    /\ inserted = <<>>

InitWithLock ==
    /\ InitRegistry /\ InitLimiterIdle /\ InitResourceIdle
    /\ InitManagerIdle /\ InitScannerIdle /\ InitLock /\ InitAppIdle

NextConcurrent ==
    \/ \E t \in ScanTasks : \E files \in WalkedRoots(VolumeOf(t)) :
          Scan_Walk(t, VolumeOf(t), files)
    \/ \E t \in ScanTasks : Scan_Lock(t)
    \/ \E t \in ScanTasks : Scan_Apply(t)
    \/ \E t \in ReadTasks : List_RLock(t)
    \/ \E t \in ReadTasks : List_Return(t)
    \/ \E t \in ReadTasks : \E id \in {Nil, 1} : Get_RLock(t, id)
    \/ \E t \in ReadTasks : Get_Return(t)
    \/ \E e \in ConcurrentAdds : Add_Locked(e)

SpecConcurrent ==
    InitWithLock
    /\ [][NextConcurrent /\ UNCHANGED <<limVars, resVars, mgrVars, scanVars, appVars>>]_vars

(***************************************************************************)
(* The configuration and the start of the server.  app.cfg holds the       *)
(* volumes of the command line (config.VolumeConfig: ID, MaxIO, Paths),    *)
(* app.pc how far the start got, app.err the error of ParseArgs,           *)
(* app.Volumes the Manager's mount points, each with a pointer (an index   *)
(* into app.lims) to its IOLimiter, and app.lims the limiters made.  The   *)
(* history field held counts, for every mount point, the slots taken       *)
(* through it and not yet released.                                        *)
(***************************************************************************)
VolumeConfig(id, maxIO, paths) == [ID |-> id, MaxIO |-> maxIO, Paths |-> paths]

\* The working directory of the process.
Cwd == <<"/", "c">>

\* filepath.IsAbs: the path starts at the root.
IsAbs(path) == Len(path) > 0 /\ path[1] = "/"

\* filepath.Abs: a path that is not absolute is joined to the working
\* directory ("." names the directory itself); the paths drawn are clean.
Abs(path) ==
    IF IsAbs(path) THEN path
    ELSE IF path = S_dot THEN Cwd
    ELSE Cwd \o <<"/">> \o path

\* The paths a command line names: m, the same directory by its absolute
\* name, and another directory.
ConfigPaths == {<<"m">>, <<"/", "c", "/", "m">>, <<"/", "n">>}

PathLists == UNION {[1..n -> ConfigPaths] : n \in 1..MaxPaths}

\* The volumes of a command line with the path lists ps: volume g has the
\* ID g.
CmdLine(ps) == [g \in DOMAIN ps |-> VolumeConfig(g, 1, ps[g])]

\* The two loops of validatePaths, flattened: every path with its volume,
\* in the order the loops meet them.
RECURSIVE Listings(_)
Listings(volumes) ==
    IF volumes = <<>> THEN <<>>
    ELSE [i \in 1..Len(Head(volumes).Paths) |->
             [vol |-> Head(volumes).ID, path |-> Head(volumes).Paths[i]]]
         \o Listings(Tail(volumes))

\* validatePaths: the path as written is looked up in pathsInConfig, the
\* absolute path is stored.  The result is <<>> for nil, or the error with
\* the path and the two volume IDs of its message.
RECURSIVE validatePaths(_, _)
validatePaths(listings, pathsInConfig) ==
    IF listings = <<>> THEN <<>>
    ELSE LET path == Head(listings).path
             absPath == Abs(path)
         IN IF path \in DOMAIN pathsInConfig
            THEN <<[path |-> path, existingVol |-> pathsInConfig[path],
                    vol |-> Head(listings).vol]>>
            ELSE validatePaths(Tail(listings),
                               MapPut(pathsInConfig, absPath, Head(listings).vol))

\* ParseArgs, from the mounts on: the error of validatePaths is its result.
ParseArgs ==
    /\ app.pc = "args"
    /\ LET err == validatePaths(Listings(app.cfg), EmptyMap)
       IN app' = [app EXCEPT !.err = err,
                             !.pc = IF err = <<>> THEN "parsed" ELSE "rejected"]

InitConfig ==
    \E n \in 1..MaxVols : \E ps \in [1..n -> PathLists] :
       app = [NoConfig EXCEPT !.cfg = CmdLine(ps), !.pc = "args"]

InitWithConfig ==
    /\ InitRegistry /\ InitLimiterIdle /\ InitResourceIdle
    /\ InitManagerIdle /\ InitScannerIdle /\ InitLockIdle /\ InitConfig

NextConfig == ParseArgs

SpecConfig ==
    /\ InitWithConfig
    /\ [][NextConfig /\ UNCHANGED <<regVars, limVars, resVars, mgrVars, scanVars, lockVars>>]_vars

\* fmt.Sprintf("%s_%d", volGroup.ID, i).
VolumeID(groupID, i) == <<groupID, i>>

\* AddMount: the mount point keeps the limiter pointer it is given.
AddMount(volumes, id, rootPath, limiter) ==
    MapPut(volumes, id, [ID |-> id, RootPath |-> rootPath, Limiter |-> limiter])

\* The mount points of one volume group, every one with the pointer given.
RECURSIVE AddGroup(_, _, _, _)
AddGroup(volumes, volGroup, i, limiter) ==
    IF i >= Len(volGroup.Paths) THEN volumes
    ELSE AddGroup(AddMount(volumes, VolumeID(volGroup.ID, i), volGroup.Paths[i + 1], limiter),
                  volGroup, i + 1, limiter)

\* NewApp's loop over cfg.Media.Volumes: one NewIOLimiter(volGroup.MaxIO)
\* for the group, handed to the mount point of every path of the group.
RECURSIVE AddVolumes(_, _, _)
AddVolumes(volumes, lims, groups) ==
    IF groups = <<>> THEN [Volumes |-> volumes, lims |-> lims]
    ELSE LET ioLimiter == Len(lims) + 1
         IN AddVolumes(AddGroup(volumes, Head(groups), 0, ioLimiter),
                       Append(lims, NewIOLimiter(Head(groups).MaxIO)),
                       Tail(groups))

NewApp ==
    /\ app.pc = "parsed"
    /\ LET made == AddVolumes(EmptyMap, <<>>, app.cfg)
       IN app' = [app EXCEPT !.Volumes = made.Volumes,
                             !.lims = made.lims,
                             !.held = [id \in DOMAIN made.Volumes |-> 0],
                             !.pc = "running"]

\* A handler's mount.Limiter.TryAcquire that takes a slot.
Mount_TryAcquire(id) ==
    /\ app.pc = "running"
    /\ CanSend(app.lims[app.Volumes[id].Limiter])
    /\ app' = [app EXCEPT !.lims[app.Volumes[id].Limiter].len = @ + 1,
                          !.held[id] = @ + 1]

\* The mount.Limiter.Release of a handler that took a slot through the
\* mount point.
Mount_Release(id) ==
    /\ app.pc = "running"
    /\ app.held[id] > 0
    /\ CanRecv(app.lims[app.Volumes[id].Limiter])
    /\ app' = [app EXCEPT !.lims[app.Volumes[id].Limiter].len = @ - 1,
                          !.held[id] = @ - 1]

\* The roots of the volume groups: all different, as validatePaths is
\* meant to leave them.
GroupRoot(g, i) == <<"/", "r", g, i>>

\* A parsed configuration: group g with np[g] paths and the MaxIO io[g].
AppConfig(io, np) ==
    [g \in DOMAIN io |-> VolumeConfig(g, io[g], [i \in 1..np[g] |-> GroupRoot(g, i)])]

InitApp ==
    \E n \in 1..MaxVols : \E io \in [1..n -> 1..MaxCap], np \in [1..n -> 1..MaxPaths] :
       app = [NoConfig EXCEPT !.cfg = AppConfig(io, np), !.pc = "parsed"]

InitWithApp ==
    /\ InitRegistry /\ InitLimiterIdle /\ InitResourceIdle
    /\ InitManagerIdle /\ InitScannerIdle /\ InitLockIdle /\ InitApp

NextApp ==
    \/ NewApp
    \/ \E id \in DOMAIN app.Volumes : Mount_TryAcquire(id)
    \/ \E id \in DOMAIN app.Volumes : Mount_Release(id)

SpecApp ==
    /\ InitWithApp
    /\ [][NextApp /\ UNCHANGED <<regVars, limVars, resVars, mgrVars, scanVars, lockVars>>]_vars

(***************************************************************************)
(* Claims about the Registry.                                              *)
(***************************************************************************)
ScanReturned == ret.op = "Scan" /\ ~ret.panicked

\* The paths the last Scan's walk recorded.
Walked == DOMAIN WalkMeta(ret.files)

\* C1: in every state a reader can observe the two indexes agree: every id
\* of byUUID has exactly one path of byPath mapping to it, every path of
\* byPath maps to an id of byUUID, and that entry's Path is the key.
C1_IndexesAgree ==
    /\ \A id \in DOMAIN byUUID :
          Cardinality({p \in DOMAIN byPath : byPath[p] = id}) = 1
    /\ \A p \in DOMAIN byPath :
          byPath[p] \in DOMAIN byUUID /\ byUUID[byPath[p]].Path = p

\* C2: the catalog holds exactly one live Entry per (volumeID, path): never
\* two entries with the same volume and path, and after a Scan of a volume
\* returned every file it recorded (of a size an Entry can have) has an
\* entry of that volume, also when another volume has the same path.
C2_OneEntryPerVolumePath ==
    /\ \A i, j \in DOMAIN byUUID :
          (byUUID[i].VolumeID = byUUID[j].VolumeID /\ byUUID[i].Path = byUUID[j].Path)
             => i = j
    /\ ScanReturned =>
          \A p \in Walked :
             ret.files[p].size # 0 =>
                \E id \in DOMAIN byUUID :
                   byUUID[id].VolumeID = ret.vol /\ byUUID[id].Path = p

\* C3: Scan is idempotent: a Scan that repeats the call before it (the same
\* volume, the same content of the root, nothing in between) changes
\* neither byUUID nor byPath.
C3_ScanIdempotent == (ret.op = "Scan" /\ ret.again) => ~ret.changed

\* C3 witness: a Scan repeated on a root with media files, in a catalog
\* that holds an entry of that volume besides the one under uuid.Nil.
C3_Witness ==
    /\ ret.op = "Scan" /\ ret.again /\ ~ret.panicked
    /\ Walked # {}
    /\ \E id \in DOMAIN byUUID : id # Nil /\ byUUID[id].VolumeID = ret.vol

\* C4 as claimed: after Scan returns, every entry of the volume whose path
\* the walk did not record is gone from both maps, and no entry of the
\* volume whose file is still on disk has been removed.
C4_RemovesOnlyFilesGoneFromDisk ==
    ScanReturned =>
       /\ \A id \in DOMAIN byUUID :
             byUUID[id].VolumeID = ret.vol => byUUID[id].Path \in Walked
       /\ \A e \in ret.removed :
             /\ e.UUID \notin DOMAIN byUUID /\ e.Path \notin DOMAIN byPath
             /\ e.Path \notin DOMAIN ret.files

\* C4 amended: after Scan returns, every entry of the volume whose path the
\* walk did not record is gone from both maps, and every entry removed is
\* an entry of that volume whose path the walk did not record (its file may
\* still be on disk: not admitted, or skipped over an error).
C4_RemovesExactlyTheUnwalked ==
    ScanReturned =>
       /\ \A id \in DOMAIN byUUID :
             byUUID[id].VolumeID = ret.vol => byUUID[id].Path \in Walked
       /\ \A e \in ret.removed :
             /\ e.UUID \notin DOMAIN byUUID /\ e.Path \notin DOMAIN byPath
             /\ e.VolumeID = ret.vol /\ e.Path \notin Walked

\* C4 witness: a Scan removed an entry and kept another entry of the volume
\* while an entry of another volume is in the catalog.
C4_Witness ==
    /\ ScanReturned
    /\ ret.removed # {}
    /\ \E id \in DOMAIN byUUID : byUUID[id].VolumeID = ret.vol
    /\ \E id \in DOMAIN byUUID : byUUID[id].VolumeID # ret.vol

\* C5: after Scan returns, every file under the root with an allowed
\* extension (in any case) whose path was not cataloged for the volume has
\* a new entry of that volume in both maps, and no entry was added for a
\* file with another extension.  Stated for the files the walk could read
\* and that are not empty.
C5_AddsEveryNewMediaFile ==
    ScanReturned =>
       /\ \A p \in Walked :
             (ret.files[p].size # 0 /\ p \notin ret.had) =>
                \E e \in ret.added :
                   /\ e.VolumeID = ret.vol /\ e.Path = p
                   /\ e.UUID \in DOMAIN byUUID /\ byUUID[e.UUID] = e
                   /\ p \in DOMAIN byPath /\ byPath[p] = e.UUID
       /\ \A e \in ret.added : ToLower(Ext(e.Path)) \in AllowedExtensions

\* C6: an identifier that was ever a key of byUUID is not given to an entry
\* a Scan adds, and a Scan does not replace the entry of a (volume, path)
\* that stays by one with another id.
C6_NoIdentifierReuse ==
    ret.op = "Scan" =>
       /\ ~ret.reused
       /\ \A e \in ret.removed : \A f \in ret.added :
             ~(e.VolumeID = f.VolumeID /\ e.Path = f.Path)
       /\ \A e \in ret.added : \A id \in DOMAIN byUUID :
             byUUID[id] = e => id = e.UUID

\* C6 witness: a Scan added an entry for a path although an identifier used
\* before is no longer in the catalog: the path got a new one.
C6_Witness ==
    /\ ScanReturned
    /\ ret.added # {}
    /\ \E id \in everPresent : id \notin DOMAIN byUUID

\* C7: List returns one copy per entry, ordered by name with ties broken by
\* id, so that equal catalogs always list the same sequence.
C7_ListOrderedByNameThenID ==
    ret.op = "List" =>
       /\ Len(ret.val) = Cardinality(DOMAIN byUUID)
       /\ {ret.val[i] : i \in 1..Len(ret.val)} = Range(byUUID)
       /\ \A i, j \in 1..Len(ret.val) :
             i < j => \/ StrLess(ret.val[i].Name, ret.val[j].Name)
                      \/ /\ ret.val[i].Name = ret.val[j].Name
                         /\ ret.val[i].UUID < ret.val[j].UUID

\* C8: what List and Get return are copies: a caller writing to a returned
\* entry does not change the index.
C8_ReturnedValuesAreCopies == ret.op = "Write" => ~ret.changed

\* C9: Get returns an error and no entry when the id is the nil identifier
\* or no key of byUUID, the entry stored under the id otherwise, and leaves
\* the registry as it was.
C9_GetContract ==
    ret.op \in {"Get", "GetEntry"} =>
       /\ ~ret.changed
       /\ ret.err <=> (ret.id = Nil \/ ret.id \notin DOMAIN byUUID)
       /\ ret.err => ret.val = <<>>
       /\ ~ret.err => ret.val = <<byUUID[ret.id]>>

\* C9 witness: Get of the nil identifier failed although an entry is stored
\* under it.
C9_Witness == ret.op \in {"Get", "GetEntry"} /\ ret.id = Nil /\ Nil \in DOMAIN byUUID /\ ret.err

\* C21: every entry a Scan adds has as category the name of the directory
\* the file lies in (also when that directory is nested), "Uncategorized"
\* for a file in the root; as name the file's base name; as size the size
\* the walk saw; and ListFiles shows the name, category and size of every
\* entry as they are in the catalog.
C21_EntryMetadataFromFile ==
    /\ ScanReturned =>
          \A e \in ret.added :
             /\ e.Category = (IF LastSlash(e.Path) = 0 THEN S_Uncategorized
                              ELSE BaseName(Dir(e.Path)))
             /\ e.Name = BaseName(e.Path)
             /\ e.Size = ret.files[e.Path].size
    /\ \A q \in Arrangements(Range(byUUID)) :
          SortedBy(q) =>
             \A i \in 1..Len(q) :
                /\ ListFiles(q)[i].UUID = q[i].UUID
                /\ ListFiles(q)[i].Name = q[i].Name
                /\ ListFiles(q)[i].Category = q[i].Category
                /\ ListFiles(q)[i].Size = q[i].Size

\* C22: a Scan leaves every entry that stays in the catalog as it was: an
\* id that is a key of byUUID before and after it holds the same entry
\* (id, volume, path, name, category, size), and a path that is a key of
\* byPath before and after it leads to the same id, whatever the size of
\* the file on disk has become.
C22_ScanKeepsStayingEntries ==
    [][ret'.op = "Scan" =>
          /\ \A id \in (DOMAIN byUUID) \cap (DOMAIN byUUID') : byUUID'[id] = byUUID[id]
          /\ \A p \in (DOMAIN byPath) \cap (DOMAIN byPath') : byPath'[p] = byPath[p]]_vars

\* C22 witness: a Scan returned and an entry of its volume that it did not
\* add records another size than the file now has on disk.
C22_Witness ==
    /\ ScanReturned
    /\ \E id \in DOMAIN byUUID :
          /\ byUUID[id].VolumeID = ret.vol
          /\ byUUID[id] \notin ret.added
          /\ byUUID[id].Path \in Walked
          /\ ret.files[byUUID[id].Path].size # byUUID[id].Size

\* C23: a Scan of volume v adds and removes entries of v only: every entry
\* of another volume is in byUUID after the Scan as before, every byPath
\* mapping that led to such an entry is still there and leads to it, and
\* no entry of another volume has appeared, also when both volumes hold a
\* file at the same relative path.
C23_ScanTouchesOwnVolumeOnly ==
    [][ret'.op = "Scan" =>
          /\ \A id \in DOMAIN byUUID :
                byUUID[id].VolumeID # ret'.vol =>
                   id \in DOMAIN byUUID' /\ byUUID'[id] = byUUID[id]
          /\ \A id \in DOMAIN byUUID' :
                byUUID'[id].VolumeID # ret'.vol => id \in DOMAIN byUUID
          /\ \A p \in DOMAIN byPath :
                (byPath[p] \in DOMAIN byUUID /\ byUUID[byPath[p]].VolumeID # ret'.vol) =>
                   p \in DOMAIN byPath' /\ byPath'[p] = byPath[p]]_vars

\* C24: when a Scan or an Add has just added the only entry of a new path
\* and a racing Scan that walked the same path, or a racing Add of an entry
\* for it, takes the lock next, the second addition is skipped: byUUID
\* still holds exactly one entry with that path and byPath leads to it.
\* (The walk reads nothing of the registry, so what a Scan step walked may
\* have been seen at any time before it took the lock.)
C24_RacedAdditionSkipped ==
    [][\A e \in ret.added :
          (/\ ret.op \in {"Scan", "Add"} /\ ~ret.panicked
           /\ Cardinality({id \in DOMAIN byUUID : byUUID[id].Path = e.Path}) = 1
           /\ ((ret'.op = "Scan" /\ ~ret'.panicked
                   /\ e.Path \in DOMAIN WalkMeta(ret'.files))
               \/ (ret'.op = "Add" /\ ret.op = "Scan"
                   /\ \E f \in ret'.added : f.Path = e.Path)))
          => /\ Cardinality({id \in DOMAIN byUUID' : byUUID'[id].Path = e.Path}) = 1
             /\ e.Path \in DOMAIN byPath'
             /\ byPath'[e.Path] \in DOMAIN byUUID'
             /\ byUUID'[byPath'[e.Path]].Path = e.Path]_vars

\* C25: the identifiers of the entries Scans create are in the order of
\* their insertion: of two entries created by Scan, by one Scan or by
\* Scans of different volumes running concurrently, the one inserted
\* earlier has the smaller identifier.
C25_IdOrderIsInsertionOrder ==
    \A i, j \in 1..Len(inserted) : i < j => inserted[i] < inserted[j]

\* C25 witness: Scans have inserted entries of two volumes, and the last
\* one made its walk before an identifier smaller than its own was given
\* out.
C25_Witness ==
    /\ ret.op = "Scan" /\ ~ret.panicked /\ ret.added # {}
    /\ \A e \in ret.added : tsk[ret.id].nid < e.UUID
    /\ \E i, j \in 1..Len(inserted) :
          /\ inserted[i] \in DOMAIN byUUID /\ inserted[j] \in DOMAIN byUUID
          /\ byUUID[inserted[i]].VolumeID # byUUID[inserted[j]].VolumeID

\* C26: a task inside Scan's walk holds no lock of the registry, so List
\* and Get of another task can take the read lock while the walk goes on;
\* the exclusive lock is held by a task only while it is in the
\* diff-and-apply step, and no task that has left Scan, by a return or by
\* a panic, holds it.
C26_WalkOutsideTheLock ==
    /\ \A t \in DOMAIN tsk :
          tsk[t].pc \in {"walking", "idle"} => mu.w # t /\ t \notin mu.r
    /\ mu.w # 0 => tsk[mu.w].pc = "locked"
    /\ ~Running => mu.w = 0
    /\ \A t \in DOMAIN tsk :
          (Running /\ tsk[t].pc = "idle" /\ t \in ReadTasks
             /\ \A u \in DOMAIN tsk : tsk[u].pc # "locked")
          => ENABLED List_RLock(t) /\ ENABLED Get_RLock(t, 1)

\* C26 witness: a List returned while a task is inside the walk of Scan and
\* another Scan has already changed the catalog.
C26_Witness ==
    /\ ret.op = "List" /\ Len(ret.val) > 1
    /\ \E t \in ScanTasks : tsk[t].pc = "walking"
    /\ inserted # <<>>

\* C27: Add(nil), Remove of the empty path and Remove of a path that is no
\* key of byPath leave byUUID and byPath as they were; Remove of a path
\* that is a key deletes that key from byPath and the id it led to from
\* byUUID, and every other key of both maps keeps its value.
C27_AddNilAndRemoveFrame ==
    [][/\ ret'.op = "AddNil" => (byUUID' = byUUID /\ byPath' = byPath)
       /\ ret'.op = "Remove" =>
             IF ret'.path = EmptyString \/ ret'.path \notin DOMAIN byPath
             THEN byUUID' = byUUID /\ byPath' = byPath
             ELSE /\ DOMAIN byPath' = (DOMAIN byPath) \ {ret'.path}
                  /\ \A q \in DOMAIN byPath' : byPath'[q] = byPath[q]
                  /\ DOMAIN byUUID' = (DOMAIN byUUID) \ {byPath[ret'.path]}
                  /\ \A id \in DOMAIN byUUID' : byUUID'[id] = byUUID[id]]_vars

\* C27 witness: a Remove took an entry out and left another entry and
\* another path in the catalog.
C27_Witness ==
    /\ ret.op = "Remove" /\ ret.removed # {}
    /\ byUUID # EmptyMap /\ byPath # EmptyMap

\* C28: a Scan whose walk fails on the root itself (the root is missing or
\* cannot be read) returns an error and leaves byUUID and byPath as they
\* were: the entries of the volume are not removed.
C28_RootFailureIsAnError ==
    (ret.op = "Scan" /\ RootFails(ret.files)) => (ret.err /\ ~ret.changed)

C10_HeldWithinCapacity ==
    /\ 0 <= Held /\ Held <= sem.cap
    /\ Held = sem.len

\* C10 witness: every slot is held, a task waits in TryAcquire and another
\* in Release, after a slot has already been released once.
C10_Witness ==
    /\ Held = sem.cap /\ sem.cap > 1
    /\ released > 0
    /\ \E t \in Tasks : lim[t].pc = "acquire"
    /\ \E t \in Tasks : lim[t].pc = "release"

\* C11: a TryAcquire that returns nil has taken exactly one slot, and one
\* that returns the context's error has taken none: the channel and the
\* number of slots held are after the failed call what they were before.
C11_AcquireTakesOneSlotOrNone ==
    [][\A t \in Tasks :
          (lim[t].pc = "acquire" /\ lim'[t].pc = "idle") =>
             IF lim'[t].res = "nil"
             THEN sem'.len = sem.len + 1 /\ Held' = Held + 1
             ELSE /\ lim'[t].res = "ctx.Err" /\ lim[t].done
                  /\ sem' = sem /\ Held' = Held]_vars

\* C11 witness: a TryAcquire returned the context's error while another
\* task's call had returned nil and there was room in the channel.
C11_Witness ==
    /\ \E t \in Tasks : lim[t].pc = "idle" /\ lim[t].res = "ctx.Err"
    /\ \E t \in Tasks : lim[t].pc = "idle" /\ lim[t].res = "nil"
    /\ Held > 0 /\ Held < sem.cap

\* C12: with every slot held, a TryAcquire whose context is not done stays
\* blocked, and once fewer than K slots are held while such a call waits,
\* some TryAcquire succeeds unless the waiting call's context fires first.
C12_BlockedUntilReleaseThenAdmitted ==
    /\ [][\A t \in Tasks :
             (Waiting(t) /\ Held = sem.cap) => lim'[t].pc = "acquire"]_vars
    /\ \A t \in Tasks : \A n \in 0..(MaxCalls - 1) :
          (Waiting(t) /\ Held < sem.cap /\ acquired = n)
             ~> (acquired > n \/ ~Waiting(t))

\* C12 witness: a task waits in TryAcquire, its context not done, while
\* every slot is held, after a Release has freed a slot before.
C12_Witness ==
    /\ Held = sem.cap /\ released > 0
    /\ \E t \in Tasks : Waiting(t)
    /\ \E t \in Tasks : lim[t].pc = "idle" /\ lim[t].res = "nil"

\* C13: for a volume whose limiter has capacity K, never more than K
\* Resources opened through Manager.OpenResource are open at once,
\* whichever handlers (/stream and /direct/) opened them.
C13_OpenResourcesWithinCapacity == Cardinality(OpenResources) <= sem.cap

\* C30: a Stream request returns either from a failed TryAcquire, having
\* opened nothing and released nothing, or through the deferred Release,
\* which gives back exactly one slot after the Resource, if one was
\* opened, has been closed: whether OpenResource failed, the content was
\* served, or the client went away.  So the slots held are exactly those
\* of the requests between TryAcquire and Release.
C30_StreamReleasesOnEveryExit ==
    /\ [][\A t \in Tasks :
             (lim[t].pc \in {"stream.acquire", "stream.open", "stream.serving",
                             "stream.release"} /\ lim'[t].pc = "idle")
             => \/ /\ lim[t].pc = "stream.acquire" /\ lim'[t].res = "ctx.Err"
                   /\ UNCHANGED <<sem, acquired, released>>
                \/ /\ lim[t].pc = "stream.release"
                   /\ released' = released + 1 /\ sem'.len = sem.len - 1]_vars
    /\ [][\A t \in Tasks :
             (lim[t].pc = "stream.serving" /\ lim'[t].pc # "stream.serving")
             => (lim'[t].pc = "stream.release" /\ released' = released)]_vars
    /\ [](Held = Cardinality(StreamHolders) /\ sem.len = Held)

\* C30 witness: a request is serving, another is past a failed
\* OpenResource or a Close and about to release, and a third has returned
\* through Release.
C30_Witness ==
    /\ released > 0
    /\ \E t, u \in Tasks :
          lim[t].pc = "stream.serving" /\ lim[u].pc = "stream.release"

(***************************************************************************)
(* Claims about the Resources.                                             *)
(***************************************************************************)
\* C14: on a Buffered resource, after reads and a Seek(P, start) to any
\* position P of the file, the Seek returned P and the next Read of M bytes
\* returns exactly the bytes P..P+M of the file (up to its end), never
\* bytes buffered before the seek.
C14_ReadAfterAbsoluteSeek ==
    /\ (rsrc.last.op = "Seek" /\ rsrc.last.whence = "SeekStart" /\ ~rsrc.last.err)
          => rsrc.last.pos = rsrc.last.offset /\ rsrc.sought = rsrc.last.offset
    /\ (rsrc.last.op = "Read" /\ rsrc.last.pos >= 0 /\ rsrc.last.pos <= rsrc.size)
          => rsrc.last.bytes = FileRead(rsrc.size, rsrc.last.pos, rsrc.last.len)

\* C14 witness: a Read that followed a Seek(P, start) which dropped bytes
\* still buffered, to a position behind the one the reads had reached.
C14_Witness ==
    /\ rsrc.last.op = "Read" /\ rsrc.last.pos > 0
    /\ rsrc.last.buffered > 0
    /\ Len(rsrc.last.bytes) > 1
    /\ rsrc.last.pos + Len(rsrc.last.bytes) < rsrc.size

\* C15: on a Buffered resource Seek(0, current) returns the logical
\* position (the descriptor's position minus the bytes buffered and not
\* yet read) and changes neither the descriptor's position nor the buffer.
C15_PositionQueryLeavesState ==
    (rsrc.last.op = "Seek" /\ rsrc.last.whence = "SeekCurrent" /\ rsrc.last.offset = 0)
       => /\ ~rsrc.last.err
          /\ rsrc.last.pos = rsrc.fpos - rsrc.last.buffered
          /\ ~rsrc.last.changed
          /\ Buffered(rsrc) = rsrc.last.buffered

\* C15 witness: the position was queried while bytes were buffered.
C15_Witness ==
    /\ rsrc.last.op = "Seek" /\ rsrc.last.whence = "SeekCurrent"
    /\ rsrc.last.offset = 0
    /\ rsrc.last.buffered > 0 /\ rsrc.last.pos > 0

\* C16: for every sequence of Reads and Seeks the Buffered resource
\* returns from every Seek what the Direct resource returns, and every
\* Read delivers the bytes the Direct resource delivers from its position,
\* all of them or a first part of them, none only at the end of the file.
C16_BufferedRefinesDirect ==
    /\ LogicalPos(rsrc) = rsrc.dpos
    /\ rsrc.last.op = "Seek" =>
          rsrc.last.err = rsrc.last.derr /\ rsrc.last.pos = rsrc.last.dpos
    /\ rsrc.last.op = "Read" =>
          /\ Len(rsrc.last.bytes) <= Len(rsrc.last.dbytes)
          /\ rsrc.last.bytes = SubSeq(rsrc.last.dbytes, 1, Len(rsrc.last.bytes))
          /\ (rsrc.last.bytes = <<>>) = (rsrc.last.dbytes = <<>>)
          /\ rsrc.last.len > 0 => rsrc.last.err = rsrc.last.derr

\* C16 witness: a relative Seek backwards, made while bytes were buffered,
\* returned the Direct resource's position.
C16_Witness ==
    /\ rsrc.last.op = "Seek" /\ rsrc.last.whence = "SeekCurrent"
    /\ rsrc.last.offset < 0 /\ ~rsrc.last.err
    /\ rsrc.last.buffered > 0 /\ rsrc.last.pos > 0

\* C32: on a Buffered resource Seek(k, current) with 0 < k <= the bytes
\* buffered and not yet read discards k buffered bytes: the descriptor's
\* position does not change, the buffered bytes after the k-th stay, and
\* the position returned is the logical position before the call plus k.
C32_SeekInsideBuffer ==
    [][(/\ rsrc'.last.op = "Seek" /\ rsrc'.last.whence = "SeekCurrent"
        /\ rsrc'.last.offset > 0 /\ rsrc'.last.offset <= Len(rsrc.buf))
       => /\ ~rsrc'.last.err
          /\ rsrc'.fpos = rsrc.fpos
          /\ rsrc'.buf = SubSeq(rsrc.buf, rsrc'.last.offset + 1, Len(rsrc.buf))
          /\ rsrc'.last.pos = rsrc.fpos - Len(rsrc.buf) + rsrc'.last.offset
          /\ rsrc'.fpos - Len(rsrc'.buf) = rsrc'.last.pos]_vars

\* C32 witness: a Seek(k, current) with k less than the bytes buffered:
\* bytes are still buffered after it.
C32_Witness ==
    /\ rsrc.last.op = "Seek" /\ rsrc.last.whence = "SeekCurrent"
    /\ rsrc.last.offset > 0 /\ rsrc.last.offset < rsrc.last.buffered
    /\ Buffered(rsrc) > 0 /\ ~rsrc.last.err

\* C33: on a Buffered resource Seek(k, current) with k negative, or
\* greater than the bytes buffered, and a target inside the file returns
\* the logical position before the call plus k, and the next Read starts
\* there: the descriptor is moved by k less the bytes buffered and the
\* buffer is emptied.
C33_RelativeSeekOutsideBuffer ==
    [][(/\ rsrc'.last.op = "Seek" /\ rsrc'.last.whence = "SeekCurrent"
        /\ (rsrc'.last.offset < 0 \/ rsrc'.last.offset > Buffered(rsrc))
        /\ LogicalPos(rsrc) + rsrc'.last.offset \in 0..rsrc.size)
       => /\ ~rsrc'.last.err
          /\ rsrc'.last.pos = LogicalPos(rsrc) + rsrc'.last.offset
          /\ rsrc'.fpos = rsrc.fpos + (rsrc'.last.offset - Buffered(rsrc))
          /\ rsrc'.buf = <<>>
          /\ LogicalPos(rsrc') = rsrc'.last.pos]_vars

\* C33 witness: a Seek(k, current) past the bytes buffered, made while
\* bytes were buffered, to a position before the end of the file.
C33_Witness ==
    /\ rsrc.last.op = "Seek" /\ rsrc.last.whence = "SeekCurrent"
    /\ rsrc.last.buffered > 0 /\ rsrc.last.offset > rsrc.last.buffered
    /\ ~rsrc.last.err /\ rsrc.last.pos < rsrc.size

(***************************************************************************)
(* Claims about the Manager.                                               *)
(***************************************************************************)
\* C17: OpenResource fails with a volume-not-found error when the entry's
\* volume is not mounted, otherwise with ErrUnsupportedMode when the mode
\* is neither Direct nor Buffered; in both cases no file is opened, none is
\* even tried.
C17_OpenResourceErrors ==
    mgr.last.op = "OpenResource" =>
       /\ mgr.last.vol \notin mgr.mounted =>
             mgr.last.err = "VolumeNotFound" /\ ~mgr.last.opened /\ ~mgr.last.tried
       /\ (mgr.last.vol \in mgr.mounted
             /\ mgr.mode \notin {ModeFileDirect, ModeFileBuffered}) =>
             mgr.last.err = "ErrUnsupportedMode" /\ ~mgr.last.opened /\ ~mgr.last.tried
       /\ mgr.last.tried =>
             mgr.last.vol \in mgr.mounted /\ mgr.mode \in {ModeFileDirect, ModeFileBuffered}

\* C17 witness: the volume is not mounted and the mode is unknown too: the
\* volume error is the one returned, for a path that could be opened.
C17_Witness ==
    /\ mgr.last.op = "OpenResource"
    /\ mgr.last.vol \notin mgr.mounted /\ mgr.mounted # {}
    /\ mgr.mode = ModeUnknown
    /\ mgr.last.path = <<"A", "m.mp4">>
    /\ mgr.last.err = "VolumeNotFound"

\* C18: opening a path that leaves the mount root (through ../ segments, a
\* symbolic link or an absolute path) always fails with an error matching
\* ErrPathOutsideRoot, whether or not the target outside exists.
C18_EscapeIsPathOutsideRoot ==
    (mgr.last.op = "OpenResource" /\ mgr.last.tried /\ mgr.last.escapes) =>
       mgr.last.err = "ErrPathOutsideRoot" /\ ~mgr.last.opened

\* C34: a failing OpenResource leaves no descriptor open, also when the
\* file was opened and file.Stat failed, in Direct and in Buffered mode; a
\* successful one leaves exactly one open, until the Resource is closed.
C34_NoDescriptorLeftOnFailure ==
    /\ (mgr.last.op = "OpenResource" /\ mgr.last.err # "ok") => mgr.fds = 0
    /\ (mgr.last.op = "OpenResource" /\ mgr.last.err = "ok") => mgr.fds = 1
    /\ mgr.last.op = "None" => mgr.fds = 0

\* C34 witness: in Buffered mode the file was opened inside the root and
\* file.Stat failed.
C34_Witness ==
    /\ mgr.last.op = "OpenResource" /\ mgr.last.stat
    /\ mgr.mode = ModeFileBuffered
    /\ mgr.last.err = "StatError" /\ mgr.fds = 0

(***************************************************************************)
(* Claims about the scanner.                                               *)
(***************************************************************************)
\* C19: StartScanning returns without waiting for a scan, and for as long
\* as the context is not cancelled the background task is there to scan
\* every volume, at once and on every tick, so that a file added to a
\* volume is cataloged in the end.
C19_ScannerScansUntilCancelled ==
    (scn.pc # "none" /\ ~scn.cancelled) =>
       /\ scn.returned
       /\ Running
       /\ scn.pc \in Scanning \cup {"start", "select"}

\* C20: once the context is cancelled no Scan begins: not from a tick
\* pending with the cancellation, not for the volumes a running pass has
\* left.
C20_NoScanAfterCancel ==
    [][scn.cancelled => ~(scn.pc \in Scanning /\ scn'.todo # scn.todo)]_vars

\* C37: in Stream a Resource is open only between the TryAcquire that
\* took a slot and the Release that gives it back: the Resources open
\* through Stream are never more than the slots held on the limiter.
C37_StreamResourcesWithinSlotsHeld ==
    /\ {t \in Tasks : lim[t].pc = "stream.serving"} \subseteq StreamHolders
    /\ Cardinality({t \in Tasks : lim[t].pc = "stream.serving"}) <= sem.len
    /\ sem.len = Held
    /\ Cardinality(StreamHolders) = sem.len

\* C37 witness: every slot is held by a Stream request, one of them with
\* its Resource open, one that has closed it and not yet released, and a
\* further request waits for a slot.
C37_Witness ==
    /\ sem.len = sem.cap /\ sem.cap > 1
    /\ \E t \in Tasks : lim[t].pc = "stream.serving"
    /\ \E t \in Tasks : lim[t].pc = "stream.release"
    /\ \E t \in Tasks : lim[t].pc = "stream.acquire"

\* C38: a TryAcquire whose context is done when the select is reached
\* takes no slot: it returns the context's error, also when there is room
\* in the channel.
C38_CancelledAcquireTakesNoSlot ==
    [][\A t \in Tasks :
          (lim[t].pc = "stream.acquire" /\ lim[t].done
             /\ lim'[t].pc # "stream.acquire")
          => /\ lim'[t].pc = "idle" /\ lim'[t].res = "ctx.Err"
             /\ sem' = sem /\ acquired' = acquired]_vars

\* C39: a Release called while no slot is held neither drives the slots
\* held below zero nor raises the capacity: the call stays blocked for as
\* long as the channel is empty, and returns only by taking a value that a
\* successful TryAcquire put there.
C39_ReleaseWithNothingHeldBlocks ==
    /\ [](Held >= 0 /\ sem.len = Held /\ sem.len <= sem.cap)
    /\ [][sem'.cap = sem.cap]_vars
    /\ [][\A t \in Tasks :
             (lim[t].pc = "release" /\ Held = 0) => lim'[t].pc = "release"]_vars
    /\ [][\A t \in Tasks :
             (lim[t].pc = "release" /\ lim'[t].pc # "release")
             => (Held > 0 /\ Held' = Held - 1 /\ sem'.len = sem.len - 1)]_vars

\* C39 witness: a task is blocked in Release while no slot is held, after
\* slots were taken and given back, and no task is in TryAcquire.
C39_Witness ==
    /\ Held = 0 /\ sem.len = 0 /\ released > 0
    /\ \E t \in Tasks : lim[t].pc = "release"
    /\ \A t \in Tasks : lim[t].pc # "acquire"

\* C36: Scan completes normally for every registry state and every walk
\* result, also when the walk holds a path that is not in byPath.
C36_ScanCompletesNormally == ret.op = "Scan" => ~ret.panicked

\* C35: every serving handler that opens a Resource answers an error of
\* OpenResource that matches ErrPathOutsideRoot with 403, and no other
\* error with 403.
C35_PathOutsideRootIsForbidden ==
    \A t \in Tasks :
       lim[t].status # 0 =>
          (lim[t].status = 403 <=> lim[t].res = "ErrPathOutsideRoot")

(***************************************************************************)
(* Claims about the configuration and the start of the server.             *)
(***************************************************************************)
\* C31: every mount point built at startup has a limiter of its own: no
\* two mount points, the paths of one volume group included, share one, so
\* the slots of a mount point's limiter in use are the slots taken through
\* that mount point.
C31_OneLimiterPerMountPoint ==
    app.pc = "running" =>
       /\ \A a, b \in DOMAIN app.Volumes :
             a # b => app.Volumes[a].Limiter # app.Volumes[b].Limiter
       /\ \A a \in DOMAIN app.Volumes :
             app.lims[app.Volumes[a].Limiter].len = app.held[a]

\* C40: a configuration that lists the same filesystem path in two
\* volumes, by a relative or an absolute name, is rejected with an error
\* that names both volumes.
C40_SamePathTwiceIsRejected ==
    app.pc \in {"parsed", "rejected"} =>
       \A i, j \in 1..Len(Listings(app.cfg)) :
          LET a == Listings(app.cfg)[i]
              b == Listings(app.cfg)[j]
          IN (i < j /\ a.vol # b.vol /\ Abs(a.path) = Abs(b.path)) =>
                /\ app.pc = "rejected"
                /\ {app.err[1].existingVol, app.err[1].vol} \subseteq
                      {l.vol : l \in Range(Listings(app.cfg))}
                /\ app.err[1].existingVol # app.err[1].vol

====
